---- MODULE Spec2Model ----
(***************************************************************************)
(* The label routes of backend/routes/labels.py as a state machine over    *)
(* the relational store they talk to.  Every handler is a process; every   *)
(* awaited database statement is one atomic step of it.  The store itself  *)
(* (tables, constraints, read-committed transactions) is the collaborator  *)
(* the routes are written against.                                         *)
(***************************************************************************)
EXTENDS Integers, Sequences, FiniteSets, Bags, TLC

\* ---------------------------------------------------------------- bounds
\* Longest document_ids / label_ids list a request carries.
MaxListLen == 2
\* Label ids are generated by the store and never reused; the last one.
MaxLabelId == 4

\* ------------------------------------------------------------- universe
Users == {"A", "B"}
\* The account the system labels are stored under (labels.user_id holds a
\* user's id for every label).
SystemUser == "sys"
\* Two requests, each served on its own connection.
Reqs == {1, 2}

\* Label names in ascending order of ORDER BY name.
NameOrder == <<"Archived", "Invoices">>
Names == {NameOrder[i] : i \in DOMAIN NameOrder}
None == "None"
\* LabelCreate.color: Field(default="#0969da"); and another color a caller
\* can give.
DefaultColor == "#0969da"
Colors == {DefaultColor, "#d73a49"}
NameRank(n) == CHOOSE i \in DOMAIN NameOrder : NameOrder[i] = n
NameLeq(a, b) == NameRank(a) <= NameRank(b)

\* The documents table: documents 1 and 2 belong to A, 3 to B; id 4 names
\* no document.  No route of this file writes it.
documents == { [id |-> 1, user_id |-> "A"],
               [id |-> 2, user_id |-> "A"],
               [id |-> 3, user_id |-> "B"] }
DocIds == {d.id : d \in documents} \cup {4}
LabelIds == 1 .. MaxLabelId

\* The labels table before the first request: one system label and one
\* label for each user.
LabelRow(id, u, name, color, sys, at) ==
    [id |-> id, user_id |-> u, name |-> name, color |-> color, is_system |-> sys,
     created_at |-> at, updated_at |-> at]
InitLabels == { LabelRow(1, SystemUser, "Archived", DefaultColor, TRUE, 0),
                LabelRow(2, "A", "Invoices", DefaultColor, FALSE, 0),
                LabelRow(3, "B", "Invoices", DefaultColor, FALSE, 0) }

Modes == {"replace", "add", "remove"}

VARIABLES
    labels,           \* the labels table: a set of rows, id is the key
    nextId,           \* the id the store gives the next created label
    clock,            \* the store's time at its last write to labels
    document_labels,  \* the committed document_labels table: a bag of rows
    req,              \* req[r]: the request slot r serves
    pc,               \* pc[r]: the statement handler r runs next
    resp,             \* resp[r]: the response of r
    txDel,            \* txDel[r]: committed rows r's open transaction deleted
    txIns,            \* txIns[r]: rows r's open transaction inserted (a bag)
    todo,             \* todo[r]: rows of r's executemany still to insert
    snap              \* snap[r]: the rows a DELETE of r matched before it had to wait

vars == <<labels, nextId, clock, document_labels, req, pc, resp, txDel, txIns, todo, snap>>

\* ------------------------------------------------------------- requests
NoReq == [kind |-> "none", user |-> "", doc |-> 0, docs |-> <<>>,
          label |-> 0, lbls |-> <<>>, mode |-> "", name |-> None, color |-> None,
          include_counts |-> FALSE]
NoSnap == [on |-> FALSE, rows |-> {}]
NoResp == [status |-> 0, msg |-> "", body |-> <<>>, n |-> 0, counts |-> <<>>]
Response(status, msg) ==
    [status |-> status, msg |-> msg, body |-> <<>>, n |-> 0, counts |-> <<>>]

ListsOver(S) == UNION { [1 .. n -> S] : n \in 0 .. MaxListLen }
\* The lists that name no id twice.
DistinctListsOver(S) ==
    { s \in ListsOver(S) : \A i, j \in DOMAIN s : i # j => s[i] # s[j] }
Range(s) == { s[i] : i \in DOMAIN s }

\* ------------------------------------------------------ rows and tables
Row(d, l, u) == [document_id |-> d, label_id |-> l, assigned_by |-> u]
Pair(row) == <<row.document_id, row.label_id>>
Pairs(rows) == { Pair(row) : row \in rows }
\* Number of rows of a table with the given (document_id, label_id).
CountPair(tbl, d, l) ==
    LET hit == { row \in BagToSet(tbl) : Pair(row) = <<d, l>> }
        F[S \in SUBSET hit] ==
            IF S = {} THEN 0
            ELSE LET x == CHOOSE y \in S : TRUE IN CopiesIn(x, tbl) + F[S \ {x}]
    IN F[hit]
\* Label ids attached to document d in a table.
LabelsOf(tbl, d) == { row.label_id : row \in { x \in BagToSet(tbl) : x.document_id = d } }
\* Variant of DocumentCount for the query that selects "0 as document_count".
DocumentCountZero(id) == 0
\* COUNT(DISTINCT dl.document_id) of the rows of document_labels joined to
\* the label.
DocumentCount(id) ==
    Cardinality({ x.document_id : x \in { y \in BagToSet(document_labels) : y.label_id = id } })
\* The document_count column of the rows of a result: counted, or the
\* constant 0.
WithCounts(rows) == [ i \in DOMAIN rows |-> DocumentCount(rows[i].id) ]
NoCounts(rows) == [ i \in DOMAIN rows |-> 0 ]


\* ------------------------------------------------- queries of the routes
\* Variant of VisibleTo that forgets the system labels.
VisibleToOwnerOnly(l, u) == l.user_id = u
\* WHERE user_id = $2 OR is_system = TRUE
VisibleTo(l, u) == l.user_id = u \/ l.is_system = TRUE
\* Variant of Modifiable without the is_system = FALSE condition.
ModifiableIgnoringSystem(l, u) == l.user_id = u
\* Variant of Modifiable without the user_id condition.
ModifiableAnyOwner(l, u) == l.is_system = FALSE
\* WHERE user_id = $2 AND is_system = FALSE
Modifiable(l, u) == l.user_id = u /\ l.is_system = FALSE
\* Variant of OwnedDocuments without the user_id condition.
OwnedDocumentsAnyUser(ids, u) == { d \in documents : d.id \in ids }
\* SELECT id FROM documents WHERE id = ANY($1) AND user_id = $2
OwnedDocuments(ids, u) == { d \in documents : d.id \in ids /\ d.user_id = u }
\* Variant of LabelCheck without the visibility condition.
LabelCheckAnyLabel(ids, u) == { l \in labels : l.id \in ids }
\* SELECT id FROM labels WHERE id = ANY($1) AND (user_id = $2 OR is_system)
LabelCheck(ids, u) == { l \in labels : l.id \in ids /\ VisibleTo(l, u) }
\* SELECT ... FROM labels WHERE user_id = $1 OR is_system = TRUE
VisibleLabels(u) == { l \in labels : VisibleTo(l, u) }
\* The orders ORDER BY name can return a set of label rows in: ascending
\* by name, rows of equal name in any order.
OrderByName(S) ==
    { s \in [1 .. Cardinality(S) -> S] :
        \A i, j \in 1 .. Cardinality(S) :
            i < j => s[i] # s[j] /\ NameLeq(s[i].name, s[j].name) }
\* SELECT l.* FROM labels l INNER JOIN document_labels dl ON l.id = dl.label_id
\* WHERE dl.document_id = $1
JoinDocumentLabels(d) == { l \in labels : l.id \in LabelsOf(document_labels, d) }
\* [(doc_id, label_id, user_id) for doc_id in document_ids for label_id in label_ids]
Values(docs, lbls, u) ==
    [ k \in 1 .. Len(docs) * Len(lbls) |->
        Row(docs[((k - 1) \div Len(lbls)) + 1], lbls[((k - 1) % Len(lbls)) + 1], u) ]

\* ------------------------------------------------------------ the store
\* Read-committed transactions with row locks: a statement sees the
\* committed rows and its own transaction's writes; a write that meets a
\* row written by another open transaction waits for that transaction.
InTx(r) == pc[r] \in {"ud_delete", "ud_insert", "ud_commit",
                      "bk_delete", "bk_insert", "bk_remove", "bk_commit"}
LabelExists(id) == \E l \in labels : l.id = id
\* Variant of NameTaken for a labels table without the constraint.
NameTakenNever(u, name, except) == FALSE
\* The uniqueness constraint on labels (user_id, name).
NameTaken(u, name, except) ==
    \E l \in labels : l.user_id = u /\ l.name = name /\ l.id # except
\* Transactions an INSERT of row by r has to wait for.
InsertHolders(r, row) ==
    { r2 \in Reqs \ {r} :
        Pair(row) \in Pairs(BagToSet(txIns[r2])) \cup Pairs(txDel[r2]) }
\* Variant of InsertOutcome for a table without the foreign key on label_id.
InsertOutcomeNoForeignKey(r, row) ==
    LET own  == Pair(row) \in Pairs(BagToSet(txIns[r]))
        live == { x \in BagToSet(document_labels) :
                    Pair(x) = Pair(row) /\ \A r2 \in Reqs : x \notin txDel[r2] }
    IN  IF own \/ live # {} THEN "unique"
        ELSE IF InsertHolders(r, row) # {} THEN "wait"
        ELSE "ok"
\* Variant of InsertOutcome for a table without the uniqueness constraint.
InsertOutcomeNoUnique(r, row) ==
    IF ~LabelExists(row.label_id) THEN "fk" ELSE "ok"
\* What INSERT INTO document_labels of one row by r meets: the uniqueness
\* constraint on (document_id, label_id), a wait, the foreign key on
\* label_id, or nothing.
InsertOutcome(r, row) ==
    LET own  == Pair(row) \in Pairs(BagToSet(txIns[r]))
        live == { x \in BagToSet(document_labels) :
                    Pair(x) = Pair(row) /\ \A r2 \in Reqs : x \notin txDel[r2] }
    IN  IF own \/ live # {} THEN "unique"
        ELSE IF InsertHolders(r, row) # {} THEN "wait"
        ELSE IF ~LabelExists(row.label_id) THEN "fk"
        ELSE "ok"
\* Variant of DeleteMatch whose bulk replace deletes without the
\* document_id condition.
DeleteMatchAllDocuments(r) ==
    LET q == req[r] IN
    { x \in BagToSet(document_labels) :
        /\ x \notin txDel[r]
        /\ CASE pc[r] = "ud_delete" -> x.document_id = q.doc
             [] pc[r] = "bk_delete" -> TRUE
             [] pc[r] = "bk_remove" -> x.document_id \in Range(q.docs)
                                       /\ x.label_id \in Range(q.lbls)
             [] pc[r] = "rd_delete" -> x.document_id = q.doc /\ x.label_id = q.label
             [] pc[r] = "dl_delete" -> x.label_id = q.label
             [] OTHER -> FALSE }
\* Variant of DeleteMatch whose bulk remove forgets the label_id condition.
DeleteMatchAllLabels(r) ==
    LET q == req[r] IN
    { x \in BagToSet(document_labels) :
        /\ x \notin txDel[r]
        /\ CASE pc[r] = "ud_delete" -> x.document_id = q.doc
             [] pc[r] \in {"bk_delete", "bk_remove"} -> x.document_id \in Range(q.docs)
             [] pc[r] = "rd_delete" -> x.document_id = q.doc /\ x.label_id = q.label
             [] pc[r] = "dl_delete" -> x.label_id = q.label
             [] OTHER -> FALSE }
\* The committed rows the WHERE clause of the DELETE statement r is about to
\* run matches.
DeleteMatch(r) ==
    LET q == req[r] IN
    { x \in BagToSet(document_labels) :
        /\ x \notin txDel[r]
        /\ CASE pc[r] = "ud_delete" -> x.document_id = q.doc
             [] pc[r] = "bk_delete" -> x.document_id \in Range(q.docs)
             [] pc[r] = "bk_remove" -> x.document_id \in Range(q.docs)
                                       /\ x.label_id \in Range(q.lbls)
             [] pc[r] = "rd_delete" -> x.document_id = q.doc /\ x.label_id = q.label
             [] pc[r] = "dl_delete" -> x.label_id = q.label
             [] OTHER -> FALSE }
\* The rows the DELETE of r deletes: a statement sees the rows committed when
\* it started, so one that had to wait deletes what is left of the rows it
\* matched then.
DeleteTarget(r) == IF snap[r].on THEN snap[r].rows ELSE DeleteMatch(r)
\* Transactions a DELETE by r has to wait for: those that deleted a row it
\* matches; deleting a label also waits for those that inserted a row
\* referencing it.
DeleteHolders(r) ==
    { r2 \in Reqs \ {r} :
        \/ txDel[r2] \cap DeleteTarget(r) # {}
        \/ /\ pc[r] = "dl_delete"
           /\ \E x \in BagToSet(txIns[r2]) : x.label_id = req[r].label }
\* The requests r waits for at its next statement.
WaitsOn(r) ==
    IF pc[r] \in {"ud_insert", "bk_insert"} /\ todo[r] # <<>>
         /\ InsertOutcome(r, Head(todo[r])) = "wait"
    THEN InsertHolders(r, Head(todo[r]))
    ELSE IF pc[r] = "ad_insert"
              /\ InsertOutcome(r, Row(req[r].doc, req[r].label, req[r].user)) = "wait"
    THEN InsertHolders(r, Row(req[r].doc, req[r].label, req[r].user))
    ELSE IF pc[r] \in {"ud_delete", "bk_delete", "bk_remove", "rd_delete"}
    THEN DeleteHolders(r)
    ELSE {}
\* r waits, directly or through others, for a request that waits for r.
RECURSIVE Reaches(_, _, _)
Reaches(from, to, n) ==
    /\ n > 0
    /\ \/ to \in WaitsOn(from)
       \/ \E m \in WaitsOn(from) : Reaches(m, to, n - 1)
InWaitCycle(r) == Reaches(r, r, Cardinality(Reqs))
\* A table without the rows of del (every copy), plus the bag ins.
Apply(tbl, del, ins) == [ x \in (DOMAIN tbl) \ del |-> tbl[x] ] (+) ins
\* COMMIT of r's transaction.
Committed(r) == Apply(document_labels, txDel[r], txIns[r])
\* The snapshots once r has run its DELETE or ended its transaction, and the
\* rows gone are committed as deleted: waiting statements skip them.
SnapAfter(r, gone) ==
    [ r2 \in Reqs |-> IF r2 = r THEN NoSnap
                      ELSE [snap[r2] EXCEPT !.rows = @ \ gone] ]


\* ------------------------------------------------------------- handlers
Goto(r, p) == pc' = [pc EXCEPT ![r] = p] /\ resp' = resp
Reply(r, rs) == pc' = [pc EXCEPT ![r] = "done"] /\ resp' = [resp EXCEPT ![r] = rs]
\* HTTPException(status_code, detail), and an exception no handler catches.
Raise(r, status, detail) == Reply(r, Response(status, detail))
\* Leaving "async with db.transaction()" by an exception: ROLLBACK.
Rollback(r) ==
    /\ txDel' = [txDel EXCEPT ![r] = {}]
    /\ txIns' = [txIns EXCEPT ![r] = EmptyBag]
    /\ todo' = [todo EXCEPT ![r] = <<>>]
NoTx == UNCHANGED <<txDel, txIns, todo, snap>>
FirstPc(kind) ==
    CASE kind = "get_labels" -> "gl_fetch"
      [] kind = "create_label" -> "cl_insert"
      [] kind = "get_label" -> "g1_fetch"
      [] kind = "update_label" -> "ul_check"
      [] kind = "delete_label" -> "dl_delete"
      [] kind = "get_document_labels" -> "gd_doc"
      [] kind = "update_document_labels" -> "ud_doc"
      [] kind = "add_document_label" -> "ad_doc"
      [] kind = "remove_document_label" -> "rd_doc"
      [] kind = "bulk_update_document_labels" -> "bk_docs"

\* Variant of ModeValid without the pattern.
ModeValidAny(m) == TRUE
\* mode: str = Query("replace", regex="^(replace|add|remove)$")
ModeValid(m) == m \in Modes
\* A request q arrives and slot r starts its handler; the slots fill in
\* order of arrival.  A bulk request whose mode does not match the pattern
\* of the parameter is answered with the validation error before the
\* handler is called.
Receive(r, q) ==
    /\ pc[r] = "idle"
    /\ \A r2 \in Reqs : r2 < r => pc[r2] # "idle"
    /\ q.kind = "create_label" =>
          nextId + Cardinality({ r2 \in Reqs : pc[r2] = "cl_insert" }) <= MaxLabelId
    /\ req' = [req EXCEPT ![r] = q]
    /\ IF q.kind = "bulk_update_document_labels" /\ ~ModeValid(q.mode)
       THEN Raise(r, 422, "string does not match regex")
       ELSE Goto(r, FirstPc(q.kind))
    /\ UNCHANGED <<labels, nextId, clock, document_labels, txDel, txIns, todo, snap>>

\* get_labels: the one SELECT.
GetLabels(r) ==
    /\ pc[r] = "gl_fetch"
    /\ \E rows \in OrderByName(VisibleLabels(req[r].user)) :
          Reply(r, [status |-> 200, msg |-> "", body |-> rows, n |-> 0,
                    counts |-> IF req[r].include_counts THEN WithCounts(rows)
                                                        ELSE NoCounts(rows)])
    /\ UNCHANGED <<labels, nextId, clock, document_labels, req>> /\ NoTx

\* Variant of LabelCreateColor without the default.
LabelCreateColorNoDefault(c) == c
\* LabelCreate.color: the color of the request body, "#0969da" when the body
\* gives none.
LabelCreateColor(c) == IF c = None THEN DefaultColor ELSE c
\* create_label: INSERT INTO labels (user_id, name, description, color,
\* background_color, icon) ... RETURNING *; the store fills id, is_system,
\* created_at and updated_at with their defaults.
CreateLabel(r) ==
    LET q == req[r]
        row == LabelRow(nextId, q.user, q.name, LabelCreateColor(q.color), FALSE, clock + 1)
    IN  /\ pc[r] = "cl_insert"
        /\ IF NameTaken(q.user, q.name, 0)
           THEN /\ Raise(r, 400, "Label with this name already exists")
                /\ UNCHANGED <<labels, nextId, clock>>
           ELSE /\ labels' = labels \cup {row}
                /\ nextId' = nextId + 1
                /\ clock' = clock + 1
                /\ Reply(r, [status |-> 200, msg |-> "", body |-> <<row>>, n |-> 0,
                                   counts |-> <<0>>])
        /\ UNCHANGED <<document_labels, req>> /\ NoTx

\* Variant of GetLabel whose SELECT has no condition on user_id or is_system.
GetLabelAnyOwner(r) ==
    LET q == req[r]
        found == { l \in labels : l.id = q.label }
    IN  /\ pc[r] = "g1_fetch"
        /\ IF found = {}
           THEN Raise(r, 404, "Label not found")
           ELSE \E l \in found :
                   Reply(r, [status |-> 200, msg |-> "", body |-> <<l>>, n |-> 0,
                             counts |-> WithCounts(<<l>>)])
        /\ UNCHANGED <<labels, nextId, clock, document_labels, req>> /\ NoTx
\* get_label: the one SELECT.
GetLabel(r) ==
    LET q == req[r]
        found == { l \in labels : l.id = q.label /\ VisibleTo(l, q.user) }
    IN  /\ pc[r] = "g1_fetch"
        /\ IF found = {}
           THEN Raise(r, 404, "Label not found")
           ELSE \E l \in found :
                   Reply(r, [status |-> 200, msg |-> "", body |-> <<l>>, n |-> 0,
                             counts |-> WithCounts(<<l>>)])
        /\ UNCHANGED <<labels, nextId, clock, document_labels, req>> /\ NoTx

\* update_label: the columns the dynamic UPDATE sets, one for each field of
\* the body that is not None.
Updates(q) ==
    (IF q.name # None THEN {"name"} ELSE {})
    \cup (IF q.color # None THEN {"color"} ELSE {})
\* update_label: the SELECT that checks existence and permission; with no
\* field to set the handler returns the row it found.
UpdateLabelCheck(r) ==
    LET q == req[r]
        existing == { l \in labels : l.id = q.label /\ Modifiable(l, q.user) }
    IN  /\ pc[r] = "ul_check"
        /\ IF existing = {}
           THEN Raise(r, 404, "Label not found or cannot be modified")
           ELSE IF Updates(q) = {}
           THEN \E l \in existing :
                   Reply(r, [status |-> 200, msg |-> "", body |-> <<l>>, n |-> 0,
                             counts |-> <<0>>])
           ELSE Goto(r, "ul_update")
        /\ UNCHANGED <<labels, nextId, clock, document_labels, req>> /\ NoTx

\* Variant of UpdateLabelUpdate that stamps a time before the present.
UpdateLabelUpdateStale(r) ==
    LET q == req[r]
        old == { l \in labels : l.id = q.label }
    IN  /\ pc[r] = "ul_update"
        /\ IF old = {}
           THEN \* fetchrow returns None and Label(**None) raises
                /\ Raise(r, 500, "Internal Server Error")
                /\ UNCHANGED <<labels, clock>>
           ELSE \E l \in old :
                  LET new == [l EXCEPT
                                !.name = IF "name" \in Updates(q) THEN q.name ELSE @,
                                !.color = IF "color" \in Updates(q) THEN q.color ELSE @,
                                !.updated_at = clock - 1]
                  IN  IF NameTaken(new.user_id, new.name, l.id)
                      THEN /\ Raise(r, 400, "Label with this name already exists")
                           /\ UNCHANGED <<labels, clock>>
                      ELSE /\ labels' = (labels \ {l}) \cup {new}
                           /\ clock' = clock + 1
                           /\ Reply(r, [status |-> 200, msg |-> "", body |-> <<new>>, n |-> 0,
                                     counts |-> <<0>>])
        /\ UNCHANGED <<nextId, document_labels, req>> /\ NoTx
\* update_label: UPDATE labels SET ... WHERE id = $1 RETURNING *.
UpdateLabelUpdate(r) ==
    LET q == req[r]
        old == { l \in labels : l.id = q.label }
    IN  /\ pc[r] = "ul_update"
        /\ IF old = {}
           THEN \* fetchrow returns None and Label(**None) raises
                /\ Raise(r, 500, "Internal Server Error")
                /\ UNCHANGED <<labels, clock>>
           ELSE \E l \in old :
                  LET new == [l EXCEPT
                                !.name = IF "name" \in Updates(q) THEN q.name ELSE @,
                                !.color = IF "color" \in Updates(q) THEN q.color ELSE @,
                                !.updated_at = clock + 1]
                  IN  IF NameTaken(new.user_id, new.name, l.id)
                      THEN /\ Raise(r, 400, "Label with this name already exists")
                           /\ UNCHANGED <<labels, clock>>
                      ELSE /\ labels' = (labels \ {l}) \cup {new}
                           /\ clock' = clock + 1
                           /\ Reply(r, [status |-> 200, msg |-> "", body |-> <<new>>, n |-> 0,
                                     counts |-> <<0>>])
        /\ UNCHANGED <<nextId, document_labels, req>> /\ NoTx

\* Variant of DeleteLabel on a store that leaves the rows of document_labels
\* that reference the label where they are.
DeleteLabelNoCascade(r) ==
    LET q == req[r]
        gone == { l \in labels : l.id = q.label /\ Modifiable(l, q.user) }
    IN  /\ pc[r] = "dl_delete"
        /\ IF gone = {}
           THEN Raise(r, 404, "Label not found or cannot be deleted")
           ELSE Reply(r, Response(200, "Label deleted successfully"))
        /\ labels' = labels \ gone
        /\ UNCHANGED <<nextId, clock, document_labels, req>> /\ NoTx
\* delete_label: DELETE FROM labels WHERE id = $1 AND user_id = $2 AND
\* is_system = FALSE; the rows of document_labels that reference the label
\* go with it.
DeleteLabel(r) ==
    LET q == req[r]
        gone == { l \in labels : l.id = q.label /\ Modifiable(l, q.user) }
    IN  /\ pc[r] = "dl_delete"
        /\ IF gone = {}
           THEN /\ Raise(r, 404, "Label not found or cannot be deleted")
                /\ UNCHANGED <<labels, document_labels, snap>>
           ELSE /\ DeleteHolders(r) = {}
                /\ labels' = labels \ gone
                /\ document_labels' = Apply(document_labels, DeleteMatch(r), EmptyBag)
                /\ snap' = SnapAfter(r, DeleteMatch(r))
                /\ Reply(r, Response(200, "Label deleted successfully"))
        /\ UNCHANGED <<nextId, clock, req, txDel, txIns, todo>>


\* Variant of DocumentCheck whose SELECT has no user_id condition.
DocumentCheckAnyUser(r, then) ==
    IF ~\E d \in documents : d.id = req[r].doc
    THEN Raise(r, 404, "Document not found")
    ELSE Goto(r, then)
\* Variant of DocumentCheck that tells a document of another user (403) from
\* a missing one (404).
DocumentCheckForbidden(r, then) ==
    IF OwnedDocuments({req[r].doc}, req[r].user) # {}
    THEN Goto(r, then)
    ELSE IF \E d \in documents : d.id = req[r].doc
    THEN Raise(r, 403, "Forbidden")
    ELSE Raise(r, 404, "Document not found")
\* "Verify document ownership" of the single-document routes: the SELECT,
\* and 404 when it finds no row.
DocumentCheck(r, then) ==
    IF OwnedDocuments({req[r].doc}, req[r].user) = {}
    THEN Raise(r, 404, "Document not found")
    ELSE Goto(r, then)

\* get_document_labels: the ownership SELECT (also when update_document_labels
\* calls it to build its response).
GetDocumentLabelsCheck(r) ==
    /\ pc[r] \in {"gd_doc", "ud_ret_doc"}
    /\ DocumentCheck(r, IF pc[r] = "gd_doc" THEN "gd_fetch" ELSE "ud_ret_fetch")
    /\ UNCHANGED <<labels, nextId, clock, document_labels, req>> /\ NoTx

\* Variant of GetDocumentLabelsFetch that consumes the rows it reads.
GetDocumentLabelsFetchClearing(r) ==
    /\ pc[r] \in {"gd_fetch", "ud_ret_fetch"}
    /\ \E rows \in OrderByName(JoinDocumentLabels(req[r].doc)) :
          Reply(r, [status |-> 200, msg |-> "", body |-> rows, n |-> 0,
                    counts |-> NoCounts(rows)])
    /\ document_labels' = Apply(document_labels,
            { x \in BagToSet(document_labels) : x.document_id = req[r].doc }, EmptyBag)
    /\ UNCHANGED <<labels, nextId, clock, req>> /\ NoTx
\* get_document_labels: the join, ordered by name.
GetDocumentLabelsFetch(r) ==
    /\ pc[r] \in {"gd_fetch", "ud_ret_fetch"}
    /\ \E rows \in OrderByName(JoinDocumentLabels(req[r].doc)) :
          Reply(r, [status |-> 200, msg |-> "", body |-> rows, n |-> 0,
                    counts |-> NoCounts(rows)])
    /\ UNCHANGED <<labels, nextId, clock, document_labels, req>> /\ NoTx

\* Variant of UpdateDocumentLabelsDoc that looks at the labels first.
UpdateDocumentLabelsDocLabelsFirst(r) ==
    /\ pc[r] = "ud_doc"
    /\ IF Cardinality(LabelCheck(Range(req[r].lbls), req[r].user)) # Len(req[r].lbls)
       THEN Raise(r, 400, "One or more labels not found")
       ELSE DocumentCheck(r, "ud_labels")
    /\ UNCHANGED <<labels, nextId, clock, document_labels, req>> /\ NoTx
\* update_document_labels: the ownership SELECT.
UpdateDocumentLabelsDoc(r) ==
    /\ pc[r] = "ud_doc"
    /\ DocumentCheck(r, "ud_labels")
    /\ UNCHANGED <<labels, nextId, clock, document_labels, req>> /\ NoTx

\* update_document_labels: "Verify all labels exist and are accessible";
\* on success the transaction opens.
UpdateDocumentLabelsLabels(r) ==
    LET q == req[r] IN
    /\ pc[r] = "ud_labels"
    /\ IF Cardinality(LabelCheck(Range(q.lbls), q.user)) # Len(q.lbls)
       THEN Raise(r, 400, "One or more labels not found")
       ELSE Goto(r, "ud_delete")
    /\ UNCHANGED <<labels, nextId, clock, document_labels, req>> /\ NoTx

\* update_document_labels: DELETE FROM document_labels WHERE document_id = $1.
UpdateDocumentLabelsDelete(r) ==
    LET q == req[r] IN
    /\ pc[r] = "ud_delete"
    /\ DeleteHolders(r) = {}
    /\ txDel' = [txDel EXCEPT ![r] = @ \cup DeleteTarget(r)]
    /\ snap' = [snap EXCEPT ![r] = NoSnap]
    /\ todo' = [todo EXCEPT ![r] = [ i \in 1 .. Len(q.lbls) |-> Row(q.doc, q.lbls[i], q.user) ]]
    /\ Goto(r, IF q.lbls # <<>> THEN "ud_insert" ELSE "ud_commit")
    /\ UNCHANGED <<labels, nextId, clock, document_labels, req, txIns>>

\* update_document_labels: one row of the executemany INSERT.
UpdateDocumentLabelsInsert(r) ==
    LET row == Head(todo[r])
        out == InsertOutcome(r, row)
    IN  /\ pc[r] = "ud_insert"
        /\ out # "wait"
        /\ IF out = "ok"
           THEN /\ txIns' = [txIns EXCEPT ![r] = @ (+) SetToBag({row})]
                /\ todo' = [todo EXCEPT ![r] = Tail(@)]
                /\ txDel' = txDel
                /\ Goto(r, IF Tail(todo[r]) = <<>> THEN "ud_commit" ELSE "ud_insert")
           ELSE \* UniqueViolationError or ForeignKeyViolationError, not caught
                /\ Rollback(r)
                /\ Raise(r, 500, "Internal Server Error")
        /\ UNCHANGED <<labels, nextId, clock, document_labels, req, snap>>

\* update_document_labels: COMMIT, then the call of get_document_labels.
UpdateDocumentLabelsCommit(r) ==
    /\ pc[r] = "ud_commit"
    /\ document_labels' = Committed(r)
    /\ snap' = SnapAfter(r, txDel[r])
    /\ Rollback(r)
    /\ Goto(r, "ud_ret_doc")
    /\ UNCHANGED <<labels, nextId, clock, req>>

\* add_document_label: the ownership SELECT.
AddDocumentLabelDoc(r) ==
    /\ pc[r] = "ad_doc"
    /\ DocumentCheck(r, "ad_label")
    /\ UNCHANGED <<labels, nextId, clock, document_labels, req>> /\ NoTx

\* Variant of AddDocumentLabelLabel whose SELECT has no condition on user_id
\* or is_system.
AddDocumentLabelLabelAnyOwner(r) ==
    /\ pc[r] = "ad_label"
    /\ IF ~LabelExists(req[r].label)
       THEN Raise(r, 404, "Label not found")
       ELSE Goto(r, "ad_insert")
    /\ UNCHANGED <<labels, nextId, clock, document_labels, req>> /\ NoTx
\* add_document_label: "Verify label exists and is accessible".
AddDocumentLabelLabel(r) ==
    LET q == req[r] IN
    /\ pc[r] = "ad_label"
    /\ IF LabelCheck({q.label}, q.user) = {}
       THEN Raise(r, 404, "Label not found")
       ELSE Goto(r, "ad_insert")
    /\ UNCHANGED <<labels, nextId, clock, document_labels, req>> /\ NoTx

\* Variant of AddDocumentLabelInsert without the except clause: the
\* UniqueViolationError reaches the caller.
AddDocumentLabelInsertRaising(r) ==
    LET q == req[r]
        row == Row(q.doc, q.label, q.user)
        out == InsertOutcome(r, row)
    IN  /\ pc[r] = "ad_insert"
        /\ out # "wait"
        /\ IF out = "ok"
           THEN /\ document_labels' = document_labels (+) SetToBag({row})
                /\ Reply(r, Response(200, "Label added successfully"))
           ELSE /\ document_labels' = document_labels
                /\ Raise(r, 500, "Internal Server Error")
        /\ UNCHANGED <<labels, nextId, clock, req>> /\ NoTx
\* add_document_label: the INSERT, in its own transaction.
AddDocumentLabelInsert(r) ==
    LET q == req[r]
        row == Row(q.doc, q.label, q.user)
        out == InsertOutcome(r, row)
    IN  /\ pc[r] = "ad_insert"
        /\ out # "wait"
        /\ CASE out = "ok" ->
                  /\ document_labels' = document_labels (+) SetToBag({row})
                  /\ Reply(r, Response(200, "Label added successfully"))
             [] out = "unique" ->
                  /\ document_labels' = document_labels
                  /\ Reply(r, Response(200, "Label already assigned"))
             [] out = "fk" ->
                  /\ document_labels' = document_labels
                  /\ Raise(r, 500, "Internal Server Error")
        /\ UNCHANGED <<labels, nextId, clock, req>> /\ NoTx

\* remove_document_label: the ownership SELECT.
RemoveDocumentLabelDoc(r) ==
    /\ pc[r] = "rd_doc"
    /\ DocumentCheck(r, "rd_delete")
    /\ UNCHANGED <<labels, nextId, clock, document_labels, req>> /\ NoTx

\* Variant of RemoveDocumentLabelDelete that does not look at the result
\* "DELETE 0".
RemoveDocumentLabelDeleteSilent(r) ==
    /\ pc[r] = "rd_delete"
    /\ DeleteHolders(r) = {}
    /\ document_labels' = Apply(document_labels, DeleteTarget(r), EmptyBag)
    /\ Reply(r, Response(200, "Label removed successfully"))
    /\ snap' = SnapAfter(r, DeleteTarget(r))
    /\ UNCHANGED <<labels, nextId, clock, req, txDel, txIns, todo>>
\* remove_document_label: the DELETE, in its own transaction.
RemoveDocumentLabelDelete(r) ==
    /\ pc[r] = "rd_delete"
    /\ DeleteHolders(r) = {}
    /\ IF DeleteTarget(r) = {}
       THEN /\ document_labels' = document_labels
            /\ Raise(r, 404, "Label not found on document")
       ELSE /\ document_labels' = Apply(document_labels, DeleteTarget(r), EmptyBag)
            /\ Reply(r, Response(200, "Label removed successfully"))
    /\ snap' = SnapAfter(r, DeleteTarget(r))
    /\ UNCHANGED <<labels, nextId, clock, req, txDel, txIns, todo>>


\* bulk_update_document_labels: where the handler goes when its checks have
\* passed and the transaction opens.
BulkEnter(q) ==
    CASE q.mode = "replace" -> "bk_delete"
      [] q.mode = "add" ->
            IF q.lbls # <<>> /\ Values(q.docs, q.lbls, q.user) # <<>>
            THEN "bk_insert" ELSE "bk_commit"
      [] q.mode = "remove" -> IF q.lbls # <<>> THEN "bk_remove" ELSE "bk_commit"
      [] OTHER -> "bk_commit"

\* Variant of BulkDocs that refuses an empty label_ids list.
BulkDocsRequiringLabels(r) ==
    LET q == req[r] IN
    /\ pc[r] = "bk_docs"
    /\ IF Cardinality(OwnedDocuments(Range(q.docs), q.user)) # Len(q.docs)
       THEN Raise(r, 400, "One or more documents not found")
       ELSE IF q.lbls # <<>>
       THEN Goto(r, "bk_labels")
       ELSE Raise(r, 400, "One or more labels not found")
    /\ UNCHANGED <<labels, nextId, clock, document_labels, req>> /\ NoTx
\* Variant of BulkDocs that compares the documents found with the set of
\* ids asked for.
BulkDocsSetBased(r) ==
    LET q == req[r] IN
    /\ pc[r] = "bk_docs"
    /\ IF Cardinality(OwnedDocuments(Range(q.docs), q.user)) # Cardinality(Range(q.docs))
       THEN Raise(r, 400, "One or more documents not found") /\ todo' = todo
       ELSE IF q.lbls # <<>>
       THEN Goto(r, "bk_labels") /\ todo' = todo
       ELSE Goto(r, BulkEnter(q)) /\ todo' = todo
    /\ UNCHANGED <<labels, nextId, clock, document_labels, req, txDel, txIns, snap>>
\* bulk_update_document_labels: "Verify document ownership".
BulkDocs(r) ==
    LET q == req[r] IN
    /\ pc[r] = "bk_docs"
    /\ IF Cardinality(OwnedDocuments(Range(q.docs), q.user)) # Len(q.docs)
       THEN Raise(r, 400, "One or more documents not found") /\ todo' = todo
       ELSE IF q.lbls # <<>>
       THEN Goto(r, "bk_labels") /\ todo' = todo
       ELSE Goto(r, BulkEnter(q)) /\ todo' = todo
    /\ UNCHANGED <<labels, nextId, clock, document_labels, req, txDel, txIns, snap>>

\* bulk_update_document_labels: "Verify labels", run for a non-empty list.
BulkLabels(r) ==
    LET q == req[r] IN
    /\ pc[r] = "bk_labels"
    /\ IF Cardinality(LabelCheck(Range(q.lbls), q.user)) # Len(q.lbls)
       THEN Raise(r, 400, "One or more labels not found") /\ todo' = todo
       ELSE /\ Goto(r, BulkEnter(q))
            /\ todo' = [todo EXCEPT ![r] =
                          IF q.mode = "add" THEN Values(q.docs, q.lbls, q.user) ELSE <<>>]
    /\ UNCHANGED <<labels, nextId, clock, document_labels, req, txDel, txIns, snap>>

\* Variant of BulkDelete that runs outside the transaction: the DELETE is
\* committed at once.
BulkDeleteAutocommit(r) ==
    LET q == req[r]
        values == IF q.lbls # <<>> THEN Values(q.docs, q.lbls, q.user) ELSE <<>>
    IN  /\ pc[r] = "bk_delete"
        /\ DeleteHolders(r) = {}
        /\ document_labels' = Apply(document_labels, DeleteTarget(r), EmptyBag)
        /\ snap' = SnapAfter(r, DeleteTarget(r))
        /\ todo' = [todo EXCEPT ![r] = values]
        /\ Goto(r, IF values # <<>> THEN "bk_insert" ELSE "bk_commit")
        /\ UNCHANGED <<labels, nextId, clock, req, txDel, txIns>>
\* mode replace: DELETE FROM document_labels WHERE document_id = ANY($1).
BulkDelete(r) ==
    LET q == req[r]
        values == IF q.lbls # <<>> THEN Values(q.docs, q.lbls, q.user) ELSE <<>>
    IN  /\ pc[r] = "bk_delete"
        /\ DeleteHolders(r) = {}
        /\ txDel' = [txDel EXCEPT ![r] = @ \cup DeleteTarget(r)]
        /\ snap' = [snap EXCEPT ![r] = NoSnap]
        /\ todo' = [todo EXCEPT ![r] = values]
        /\ Goto(r, IF values # <<>> THEN "bk_insert" ELSE "bk_commit")
        /\ UNCHANGED <<labels, nextId, clock, document_labels, req, txIns>>

\* Variant of BulkInsert with ON CONFLICT DO UPDATE SET assigned_by: the row
\* it meets is replaced by the caller's.
BulkInsertOverwriting(r) ==
    LET row == Head(todo[r])
        out == InsertOutcome(r, row)
        met == { x \in BagToSet(document_labels) : Pair(x) = Pair(row) /\ x \notin txDel[r] }
    IN  /\ pc[r] = "bk_insert"
        /\ out # "wait"
        /\ IF out = "fk"
           THEN /\ Rollback(r)
                /\ Raise(r, 500, "Internal Server Error")
           ELSE /\ txIns' = [txIns EXCEPT ![r] =
                               IF out = "ok" \/ met # {} THEN @ (+) SetToBag({row}) ELSE @]
                /\ todo' = [todo EXCEPT ![r] = Tail(@)]
                /\ txDel' = [txDel EXCEPT ![r] = @ \cup met]
                /\ Goto(r, IF Tail(todo[r]) = <<>> THEN "bk_commit" ELSE "bk_insert")
        /\ UNCHANGED <<labels, nextId, clock, document_labels, req, snap>>
\* Variant of BulkInsert without ON CONFLICT DO NOTHING.
BulkInsertNoOnConflict(r) ==
    LET row == Head(todo[r])
        out == InsertOutcome(r, row)
    IN  /\ pc[r] = "bk_insert"
        /\ out # "wait"
        /\ IF out \in {"fk", "unique"}
           THEN /\ Rollback(r)
                /\ Raise(r, 500, "Internal Server Error")
           ELSE /\ txIns' = [txIns EXCEPT ![r] = @ (+) SetToBag({row})]
                /\ todo' = [todo EXCEPT ![r] = Tail(@)]
                /\ txDel' = txDel
                /\ Goto(r, IF Tail(todo[r]) = <<>> THEN "bk_commit" ELSE "bk_insert")
        /\ UNCHANGED <<labels, nextId, clock, document_labels, req, snap>>
\* modes replace and add: one row of the executemany INSERT ... ON CONFLICT
\* DO NOTHING.
BulkInsert(r) ==
    LET row == Head(todo[r])
        out == InsertOutcome(r, row)
    IN  /\ pc[r] = "bk_insert"
        /\ out # "wait"
        /\ IF out = "fk"
           THEN \* ForeignKeyViolationError, not caught
                /\ Rollback(r)
                /\ Raise(r, 500, "Internal Server Error")
           ELSE /\ txIns' = [txIns EXCEPT ![r] =
                               IF out = "ok" THEN @ (+) SetToBag({row}) ELSE @]
                /\ todo' = [todo EXCEPT ![r] = Tail(@)]
                /\ txDel' = txDel
                /\ Goto(r, IF Tail(todo[r]) = <<>> THEN "bk_commit" ELSE "bk_insert")
        /\ UNCHANGED <<labels, nextId, clock, document_labels, req, snap>>

\* mode remove: DELETE FROM document_labels WHERE document_id = ANY($1) AND
\* label_id = ANY($2).
BulkRemove(r) ==
    /\ pc[r] = "bk_remove"
    /\ DeleteHolders(r) = {}
    /\ txDel' = [txDel EXCEPT ![r] = @ \cup DeleteTarget(r)]
    /\ snap' = [snap EXCEPT ![r] = NoSnap]
    /\ Goto(r, "bk_commit")
    /\ UNCHANGED <<labels, nextId, clock, document_labels, req, txIns, todo>>

\* Variant of BulkCommit that reports the number of rows the call deleted
\* and inserted.
BulkCommitCountingRows(r) ==
    LET q == req[r] IN
    /\ pc[r] = "bk_commit"
    /\ document_labels' = Committed(r)
    /\ snap' = SnapAfter(r, txDel[r])
    /\ Rollback(r)
    /\ Reply(r, [status |-> 200, msg |-> <<"Labels ", q.mode, "d successfully">>,
                 body |-> <<>>,
                 n |-> Cardinality(txDel[r]) + Cardinality(BagToSet(txIns[r])),
                 counts |-> <<>>])
    /\ UNCHANGED <<labels, nextId, clock, req>>
\* bulk_update_document_labels: COMMIT and the response.
BulkCommit(r) ==
    LET q == req[r] IN
    /\ pc[r] = "bk_commit"
    /\ document_labels' = Committed(r)
    /\ snap' = SnapAfter(r, txDel[r])
    /\ Rollback(r)
    /\ Reply(r, [status |-> 200, msg |-> <<"Labels ", q.mode, "d successfully">>,
                 body |-> <<>>, n |-> Len(q.docs), counts |-> <<>>])
    /\ UNCHANGED <<labels, nextId, clock, req>>

\* The store ends a circular wait by aborting one of the transactions in
\* it; the handler does not catch the error.
DeadlockAbort(r) ==
    /\ InTx(r)
    /\ InWaitCycle(r)
    /\ Rollback(r)
    /\ snap' = [snap EXCEPT ![r] = NoSnap]
    /\ Raise(r, 500, "Internal Server Error")
    /\ UNCHANGED <<labels, nextId, clock, document_labels, req>>

\* Variant of Cancel for statements run without a transaction: what was
\* written before the cancellation stays.
CancelPartial(r) ==
    /\ InTx(r)
    /\ document_labels' = Committed(r)
    /\ Rollback(r)
    /\ snap' = [snap EXCEPT ![r] = NoSnap]
    /\ Reply(r, [NoResp EXCEPT !.msg = "CancelledError"])
    /\ UNCHANGED <<labels, nextId, clock, req>>
\* The task of the request is cancelled at an await inside
\* "async with db.transaction()": the block is left by CancelledError, the
\* transaction is rolled back and no response is sent.
Cancel(r) ==
    /\ InTx(r)
    /\ Rollback(r)
    /\ snap' = [snap EXCEPT ![r] = NoSnap]
    /\ Reply(r, [NoResp EXCEPT !.msg = "CancelledError"])
    /\ UNCHANGED <<labels, nextId, clock, document_labels, req>>

\* A DELETE on document_labels that starts while another transaction holds
\* a row it matches: it has read the table and waits.
DeleteWait(r) ==
    /\ pc[r] \in {"ud_delete", "bk_delete", "bk_remove", "rd_delete"}
    /\ ~snap[r].on
    /\ DeleteHolders(r) # {}
    /\ snap' = [snap EXCEPT ![r] = [on |-> TRUE, rows |-> DeleteMatch(r)]]
    /\ UNCHANGED <<labels, nextId, clock, document_labels, req, pc, resp, txDel, txIns, todo>>

\* -------------------------------------------------------------- requests
Q(kind, u, d, ds, l, ls, m, n, c) ==
    [kind |-> kind, user |-> u, doc |-> d, docs |-> ds,
     label |-> l, lbls |-> ls, mode |-> m, name |-> n, color |-> c,
     include_counts |-> FALSE]
\* The requests callers U can send about documents D, labels L, document
\* lists DL, label lists LL, names N and colors C.
Inputs(U, D, L, DL, LL, N, C) ==
    { [Q("get_labels", u, 0, <<>>, 0, <<>>, "", None, None) EXCEPT !.include_counts = ic] :
        u \in U, ic \in BOOLEAN }
    \cup { Q("create_label", u, 0, <<>>, 0, <<>>, "", n, c) :
             u \in U, n \in N \ {None}, c \in C }
    \cup { Q("get_label", u, 0, <<>>, l, <<>>, "", None, None) : u \in U, l \in L }
    \cup { Q("update_label", u, 0, <<>>, l, <<>>, "", n, c) :
             u \in U, l \in L, n \in N, c \in C }
    \cup { Q("delete_label", u, 0, <<>>, l, <<>>, "", None, None) : u \in U, l \in L }
    \cup { Q("get_document_labels", u, d, <<>>, 0, <<>>, "", None, None) : u \in U, d \in D }
    \cup { Q("update_document_labels", u, d, <<>>, 0, ls, "", None, None) :
             u \in U, d \in D, ls \in LL }
    \cup { Q("add_document_label", u, d, <<>>, l, <<>>, "", None, None) :
             u \in U, d \in D, l \in L }
    \cup { Q("remove_document_label", u, d, <<>>, l, <<>>, "", None, None) :
             u \in U, d \in D, l \in L }
    \cup { Q("bulk_update_document_labels", u, 0, ds, 0, ls, m, None, None) :
             u \in U, ds \in DL, ls \in LL, m \in Modes }

\* Assignment rows the routes can have created before the first request:
\* each by the owner of its document, of a label that owner sees.
ValidRows ==
    UNION { { Row(d.id, l.id, d.user_id) :
                l \in { x \in InitLabels : VisibleTo(x, d.user_id) } } : d \in documents }
TablesOver(S) == { SetToBag(T) : T \in SUBSET S }

\* The color field of a request body: absent, or a color other than the
\* default.
PatchColors == {None} \cup (Colors \ {DefaultColor})
\* The requests served concurrently: those of caller A about their two
\* documents and the labels they see, and the single-label and
\* single-document requests of both callers about their own and the
\* other's documents and labels, and the label requests of the account
\* that holds the system labels.
ConcInputs ==
    Inputs({"A"}, {1, 3}, {1, 2, 3}, DistinctListsOver({1, 2}), DistinctListsOver({1, 2}),
           Names \cup {None}, PatchColors)
    \cup Inputs({"B"}, {1, 3}, {1, 2, 3}, {}, {}, Names \cup {None}, {None})
    \cup Inputs({SystemUser}, {}, {1}, {}, {}, Names \cup {None}, {None})
\* Bulk requests with a mode that is none of the three.
InvalidModeInputs(U, DL, LL) ==
    { Q("bulk_update_document_labels", u, 0, ds, 0, ls, "merge", None, None) :
        u \in U, ds \in DL, ls \in LL }
\* Every request about every document and label.
AllInputs ==
    Inputs(Users, DocIds, LabelIds, ListsOver({1, 2, 3}), ListsOver({1, 2, 3}),
           Names \cup {None}, PatchColors)
    \cup Inputs({SystemUser}, {}, {1}, {}, {}, Names \cup {None}, PatchColors)
    \cup InvalidModeInputs(Users, ListsOver({1, 2, 3}), ListsOver({1, 2, 3}))

InitBase ==
    /\ labels = InitLabels
    /\ nextId = 4
    /\ clock = 0
    /\ req = [r \in Reqs |-> NoReq]
    /\ pc = [r \in Reqs |-> "idle"]
    /\ resp = [r \in Reqs |-> NoResp]
    /\ txDel = [r \in Reqs |-> {}]
    /\ txIns = [r \in Reqs |-> EmptyBag]
    /\ todo = [r \in Reqs |-> <<>>]
    /\ snap = [r \in Reqs |-> NoSnap]

Init ==
    /\ InitBase
    /\ document_labels \in TablesOver({ Row(1, 2, "A") })

Step(r) ==
    \/ GetLabels(r)
    \/ CreateLabel(r)
    \/ GetLabel(r)
    \/ UpdateLabelCheck(r)
    \/ UpdateLabelUpdate(r)
    \/ DeleteLabel(r)
    \/ GetDocumentLabelsCheck(r)
    \/ GetDocumentLabelsFetch(r)
    \/ UpdateDocumentLabelsDoc(r)
    \/ UpdateDocumentLabelsLabels(r)
    \/ UpdateDocumentLabelsDelete(r)
    \/ UpdateDocumentLabelsInsert(r)
    \/ UpdateDocumentLabelsCommit(r)
    \/ AddDocumentLabelDoc(r)
    \/ AddDocumentLabelLabel(r)
    \/ AddDocumentLabelInsert(r)
    \/ RemoveDocumentLabelDoc(r)
    \/ RemoveDocumentLabelDelete(r)
    \/ BulkDocs(r)
    \/ BulkLabels(r)
    \/ BulkDelete(r)
    \/ BulkInsert(r)
    \/ BulkRemove(r)
    \/ BulkCommit(r)

\* Requests served concurrently, each on its own connection.
Next ==
    \E r \in Reqs :
        \/ pc[r] = "idle" /\ \E q \in ConcInputs : Receive(r, q)
        \/ Step(r)
        \/ DeleteWait(r)
        \/ DeadlockAbort(r)
        \/ Cancel(r)

Spec == Init /\ [][Next]_vars

\* One request served alone, from any table of valid rows of documents 1
\* and 3.
OneInit ==
    /\ InitBase
    /\ document_labels \in TablesOver({ x \in ValidRows : x.document_id # 2 })

OneNext ==
    \/ (\A r \in Reqs : pc[r] = "idle") /\ \E q \in AllInputs : Receive(1, q)
    \/ Step(1)
    \/ Cancel(1)

OneSpec == OneInit /\ [][OneNext]_vars

\* The statements of bulk_update_document_labels.
BulkStep(r) ==
    \/ BulkDocs(r)
    \/ BulkLabels(r)
    \/ BulkDelete(r)
    \/ BulkInsert(r)
    \/ BulkRemove(r)
    \/ BulkCommit(r)
\* One bulk request sent twice in a row: the second is received when the
\* first has been answered.
RepeatNext ==
    \/ (\A r \in Reqs : pc[r] = "idle") /\
          \E q \in { x \in AllInputs : x.kind = "bulk_update_document_labels" } : Receive(1, q)
    \/ pc[1] = "done" /\ Receive(2, req[1])
    \/ \E r \in Reqs : BulkStep(r)

RepeatSpec == OneInit /\ [][RepeatNext]_vars

\* Tables of at most one row for each pair of ValidRows of documents 1 and
\* 3, the row assigned by the owner of the document or by the system user
\* (the column assigned_by holds any user id; the routes of this module
\* write the caller's).
AuditTables ==
    LET P == Pairs({ x \in ValidRows : x.document_id # 2 })
        owner(d) == (CHOOSE x \in documents : x.id = d).user_id
    IN  { SetToBag({ Row(p[1], p[2], IF f[p] THEN SystemUser ELSE owner(p[1])) : p \in S }) :
            S \in SUBSET P, f \in [P -> BOOLEAN] }
AuditInit ==
    /\ InitBase
    /\ document_labels \in AuditTables
\* One bulk request served alone.
AuditNext ==
    \/ (\A r \in Reqs : pc[r] = "idle") /\
          \E q \in { x \in AllInputs : x.kind = "bulk_update_document_labels" } : Receive(1, q)
    \/ BulkStep(1)

AuditSpec == AuditInit /\ [][AuditNext]_vars


\* ------------------------------------------------------------ properties
Bulk == "bulk_update_document_labels"
\* The step is one of request r.
Moved(r) == pc'[r] # pc[r] \/ todo'[r] # todo[r] \/ snap'[r].on # snap[r].on
\* The label set a mode makes of the previous set P and the requested set L.
ModeResult(mode, P, L) ==
    CASE mode = "add" -> P \cup L
      [] mode = "remove" -> P \ L
      [] mode = "replace" -> L

\* C1: when a bulk apply served alone commits, every targeted document has
\* the label set its mode makes of the set it had before and the requested
\* labels: the union for add, the difference for remove, the requested set
\* for replace; and the call answers 200.
C1_ModeAlgebra ==
    [][ \A r \in Reqs :
          pc[r] = "bk_commit" /\ pc'[r] = "done" /\ resp'[r].msg # "CancelledError" =>
            /\ resp'[r].status = 200
            /\ \A d \in Range(req[r].docs) :
                  LabelsOf(document_labels', d) =
                    ModeResult(req[r].mode, LabelsOf(document_labels, d), Range(req[r].lbls))
      ]_vars
\* A bulk remove of label 2 from documents 1 and 2 has succeeded and
\* document 1 keeps label 1.
C1_Witness ==
    /\ pc[1] = "done" /\ req[1].kind = Bulk /\ resp[1].status = 200
    /\ req[1].mode = "remove" /\ req[1].docs = <<1, 2>> /\ req[1].lbls = <<2>>
    /\ LabelsOf(document_labels, 1) = {1}

\* Some id of document_ids names no document of the caller.
InvalidDocs(q) ==
    \E i \in DOMAIN q.docs :
        ~\E d \in documents : d.id = q.docs[i] /\ d.user_id = q.user
\* label_ids is not empty and some id in it names no label the caller sees.
InvalidLabels(q) ==
    \E i \in DOMAIN q.lbls :
        ~\E l \in labels : l.id = q.lbls[i] /\ (l.user_id = q.user \/ l.is_system)
\* C2: no step of a bulk apply that names a document the caller does not own,
\* or a label the caller does not see, changes document_labels, and such a
\* call ends with status 400.
C2_InvalidBulkChangesNothing ==
    [][ \A r \in Reqs :
          req[r].kind = Bulk /\ Moved(r)
            /\ (InvalidDocs(req[r]) \/ InvalidLabels(req[r])) =>
              /\ document_labels' = document_labels
              /\ pc'[r] = "done" => resp'[r].status = 400
      ]_vars
\* A replace of documents 1 (the caller's) and 3 (not the caller's) was
\* refused and document 1 still has its labels.
C2_Witness ==
    /\ pc[1] = "done" /\ req[1].kind = Bulk /\ resp[1].status = 400
    /\ req[1].user = "A" /\ req[1].docs = <<1, 3>> /\ req[1].lbls = <<1>>
    /\ req[1].mode = "replace"
    /\ LabelsOf(document_labels, 1) = {1, 2}

\* C3: a bulk apply or a single-document replace changes the committed table,
\* which is what listForDocument reads, in one step only, its COMMIT, and
\* that step publishes all its deletes and all its inserts together; no other
\* step of it, a rollback included, changes what a reader sees.
C3_NoPartialCommit ==
    [][ \A r \in Reqs :
          req[r].kind \in {Bulk, "update_document_labels"} /\ Moved(r) =>
            \/ document_labels' = document_labels
            \/ /\ pc[r] \in {"ud_commit", "bk_commit"}
               /\ todo[r] = <<>>
               /\ \A x \in txDel[r] :
                     x \notin BagToSet(txIns[r]) => x \notin BagToSet(document_labels')
               /\ \A x \in BagToSet(txIns[r]) : x \in BagToSet(document_labels')
               /\ txDel'[r] = {} /\ txIns'[r] = EmptyBag
      ]_vars
\* A replace has deleted the rows of document 1 and not yet inserted all its
\* own, the table a reader sees still holds the deleted rows, and a reader of
\* document 1 is about to read.
C3_Witness ==
    \E r, r2 \in Reqs :
        /\ pc[r] = "bk_insert" /\ req[r].mode = "replace"
        /\ txDel[r] # {} /\ txDel[r] \subseteq BagToSet(document_labels)
        /\ req[r2].kind = "get_document_labels" /\ req[r2].doc = 1
        /\ pc[r2] = "gd_fetch"


\* The request adds labels: a single add, or a bulk apply of mode add.
IsAdd(q) == q.kind = "add_document_label" \/ (q.kind = Bulk /\ q.mode = "add")
\* The (document, label) pairs an add inserts.
AddPairs(q) ==
    IF q.kind = Bulk
    THEN { <<d, l>> : d \in Range(q.docs), l \in Range(q.lbls) }
    ELSE { <<q.doc, q.label>> }
\* C4: when two adds that passed their checks and insert a common pair have
\* both ended, both answered 200 and the pair has exactly one row.
C4_ConcurrentAddsSucceed ==
    \A r1, r2 \in Reqs :
        /\ r1 # r2 /\ IsAdd(req[r1]) /\ IsAdd(req[r2])
        /\ pc[r1] = "done" /\ pc[r2] = "done"
        /\ resp[r1].status \notin {400, 404} /\ resp[r2].status \notin {400, 404}
        /\ AddPairs(req[r1]) \cap AddPairs(req[r2]) # {}
        => /\ resp[r1].status = 200 /\ resp[r2].status = 200
           /\ \A p \in AddPairs(req[r1]) \cap AddPairs(req[r2]) :
                 CountPair(document_labels, p[1], p[2]) = 1

\* The request replaces the labels of documents: the single-document
\* replace, or a bulk apply of mode replace.
IsReplace(q) == q.kind = "update_document_labels" \/ (q.kind = Bulk /\ q.mode = "replace")
ReplaceDocs(q) == IF q.kind = Bulk THEN Range(q.docs) ELSE {q.doc}
\* The transaction of replace r is committed.
HasCommitted(r) ==
    \/ pc[r] \in {"ud_ret_doc", "ud_ret_fetch"}
    \/ pc[r] = "done" /\ resp[r].status = 200
\* C5: when a replace commits after another replace of the same document has
\* committed, the document's label set is the set of the one committing now.
C5_LastWriterWins ==
    [][ \A r, r2 \in Reqs :
          /\ r # r2 /\ IsReplace(req[r]) /\ IsReplace(req[r2])
          /\ pc[r] \in {"ud_commit", "bk_commit"} /\ pc'[r] # pc[r]
          /\ HasCommitted(r2)
          => \A d \in ReplaceDocs(req[r]) \cap ReplaceDocs(req[r2]) :
                LabelsOf(document_labels', d) = Range(req[r].lbls)
      ]_vars

\* The rows request r inserts in this step, in its transaction or, for the
\* single add, in the table.
InsertedBy(r) ==
    { x \in BagToSet(txIns'[r]) : CopiesIn(x, txIns'[r]) > CopiesIn(x, txIns[r]) }
    \cup IF pc[r] = "ad_insert"
         THEN { x \in BagToSet(document_labels') :
                    CopiesIn(x, document_labels') > CopiesIn(x, document_labels) }
         ELSE {}
\* The document of row x exists and belongs to the user who assigned it.
AssignedByOwner(x) ==
    \E d \in documents : d.id = x.document_id /\ d.user_id = x.assigned_by
\* C6: whenever a row (d, l, u) is inserted, document d exists and belongs to
\* u and label l exists and belongs to u or is a system label, at that
\* moment; and every row of the table was assigned by its document's owner.
C6_CreationTimeAuthorization ==
    /\ [](\A x \in BagToSet(document_labels) : AssignedByOwner(x))
    /\ [][ \A r \in Reqs : \A x \in InsertedBy(r) :
             /\ AssignedByOwner(x)
             /\ \E l \in labels :
                   l.id = x.label_id /\ (l.user_id = x.assigned_by \/ l.is_system)
         ]_vars
\* A single add passed its checks, the label was deleted before the INSERT,
\* and the INSERT failed.
C6_Witness ==
    \E r, r2 \in Reqs :
        /\ req[r].kind = "add_document_label" /\ pc[r] = "done" /\ resp[r].status = 500
        /\ req[r2].kind = "delete_label" /\ pc[r2] = "done" /\ resp[r2].status = 200
        /\ req[r2].label = req[r].label

\* C7: the committed table holds at most one row for every
\* (document_id, label_id).
C7_AtMostOneRowPerPair ==
    \A d \in DocIds, l \in LabelIds : CountPair(document_labels, d, l) <= 1
\* A single add and a bulk add of the same pair have both ended with 200 and
\* the pair has a row.
C7_Witness ==
    /\ req[1].kind = "add_document_label" /\ req[1].doc = 1 /\ req[1].label = 1
    /\ req[2].kind = Bulk /\ req[2].mode = "add"
    /\ req[2].docs = <<2, 1>> /\ req[2].lbls = <<1>>
    /\ pc[1] = "done" /\ pc[2] = "done"
    /\ resp[1].status = 200 /\ resp[2].status = 200
    /\ CountPair(document_labels, 1, 1) = 1

\* C8: no step removes or changes a system label, and an update or a delete
\* whose label id names a system label ends at its first statement with 404.
C8_SystemLabelsImmutable ==
    [][ /\ \A l \in labels : l.is_system => l \in labels'
        /\ \A r \in Reqs :
              /\ Moved(r) /\ pc[r] \in {"ul_check", "dl_delete"}
              /\ \E l \in labels : l.id = req[r].label /\ l.is_system
              => pc'[r] = "done" /\ resp'[r].status = 404 /\ labels' = labels
      ]_vars
\* The account that holds the system label asked to delete it and to rename
\* it; both calls got 404 and the label is as it was.
C8_Witness ==
    /\ req[1].kind = "delete_label" /\ req[1].user = SystemUser /\ req[1].label = 1
    /\ req[2].kind = "update_label" /\ req[2].user = SystemUser /\ req[2].label = 1
    /\ req[2].name = "Invoices"
    /\ pc[1] = "done" /\ pc[2] = "done"
    /\ resp[1].status = 404 /\ resp[2].status = 404
    /\ LabelRow(1, SystemUser, "Archived", DefaultColor, TRUE, 0) \in labels

\* C9: the list get_labels answers with holds each label that the caller owns
\* or that is a system label once, holds no other label, and is ascending by
\* name.
C9_ListVisible ==
    [][ \A r \in Reqs :
          pc[r] = "gl_fetch" /\ pc'[r] = "done" =>
            LET b == resp'[r].body IN
            /\ resp'[r].status = 200
            /\ Range(b) = { l \in labels : l.user_id = req[r].user \/ l.is_system }
            /\ \A i, j \in DOMAIN b : i < j => b[i] # b[j] /\ NameLeq(b[i].name, b[j].name)
      ]_vars
\* After B created a label named Archived, A listed labels and got the system
\* label and A's own, and not B's two.
C9_Witness ==
    \E r, r2 \in Reqs :
        /\ req[r].kind = "get_labels" /\ req[r].user = "A" /\ pc[r] = "done"
        /\ Len(resp[r].body) = 2
        /\ resp[r].body[1].is_system /\ resp[r].body[2].user_id = "A"
        /\ req[r2].kind = "create_label" /\ req[r2].user = "B"
        /\ pc[r2] = "done" /\ resp[r2].status = 200
        /\ Cardinality(labels) = 4

\* C10: an add of a pair that has a row answers 200 "Label already assigned"
\* and changes no row; an add of a pair that has none answers 200 "Label
\* added successfully" and leaves one row; so of two adds of the same pair by
\* the same caller both answer 200, at most one as a fresh assignment, and
\* the pair has one row.
C10_IdempotentAdd ==
    /\ [][ \A r \in Reqs :
             pc[r] = "ad_insert" /\ pc'[r] = "done" /\ LabelExists(req[r].label) =>
               /\ resp'[r].status = 200
               /\ IF CountPair(document_labels, req[r].doc, req[r].label) > 0
                  THEN /\ resp'[r].msg = "Label already assigned"
                       /\ document_labels' = document_labels
                  ELSE /\ resp'[r].msg = "Label added successfully"
                       /\ CountPair(document_labels', req[r].doc, req[r].label) = 1
         ]_vars
    /\ [](\A r1, r2 \in Reqs :
            /\ r1 # r2 /\ req[r1] = req[r2] /\ req[r1].kind = "add_document_label"
            /\ pc[r1] = "done" /\ pc[r2] = "done"
            /\ resp[r1].status # 404 /\ resp[r2].status # 404
            => /\ resp[r1].status = 200 /\ resp[r2].status = 200
               /\ CountPair(document_labels, req[r1].doc, req[r1].label) = 1
               /\ ~(resp[r1].msg = "Label added successfully"
                    /\ resp[r2].msg = "Label added successfully"))
\* Two adds of label 1 to document 1 by A have ended, the first as a fresh
\* assignment and the second as already assigned.
C10_Witness ==
    /\ req[1] = req[2] /\ req[1].kind = "add_document_label"
    /\ req[1].user = "A" /\ req[1].doc = 1 /\ req[1].label = 1
    /\ pc[1] = "done" /\ pc[2] = "done"
    /\ resp[1].msg = "Label added successfully"
    /\ resp[2].msg = "Label already assigned"
    /\ CountPair(document_labels, 1, 1) = 1

\* The rows of a table other than those of pair (d, l) are the same in both.
SameButPair(t1, t2, d, l) ==
    \A x \in BagToSet(t1) \cup BagToSet(t2) :
        Pair(x) # <<d, l>> => CopiesIn(x, t1) = CopiesIn(x, t2)
\* C11: the DELETE of a single remove whose document the caller owns, when
\* it runs without having waited for another transaction, answers 200 and
\* removes the rows of the pair and no other row if the pair has a row, and
\* answers 404 "Label not found on document" and changes no row if it has
\* none; so of two removes of the same pair at most one answers 200.
C11_RemoveOne ==
    /\ [][ \A r \in Reqs :
             pc[r] = "rd_delete" /\ pc'[r] = "done" /\ ~snap[r].on =>
               IF CountPair(document_labels, req[r].doc, req[r].label) > 0
               THEN /\ resp'[r].status = 200
                    /\ CountPair(document_labels', req[r].doc, req[r].label) = 0
                    /\ SameButPair(document_labels, document_labels', req[r].doc, req[r].label)
               ELSE /\ resp'[r] = Response(404, "Label not found on document")
                    /\ document_labels' = document_labels
         ]_vars
    /\ [](\A r1, r2 \in Reqs :
            /\ r1 # r2 /\ req[r1] = req[r2] /\ req[r1].kind = "remove_document_label"
            /\ pc[r1] = "done" /\ pc[r2] = "done"
            => /\ ~(resp[r1].status = 200 /\ resp[r2].status = 200)
               /\ CountPair(document_labels, req[r1].doc, req[r1].label) = 0
                    \/ resp[r1].msg = "Document not found")
\* Two removes of label 2 from document 1 by A have ended, the first with 200
\* and the second with 404 for the pair.
C11_Witness ==
    /\ req[1] = req[2] /\ req[1].kind = "remove_document_label"
    /\ req[1].user = "A" /\ req[1].doc = 1 /\ req[1].label = 2
    /\ pc[1] = "done" /\ pc[2] = "done"
    /\ resp[1].status = 200
    /\ resp[2] = Response(404, "Label not found on document")
    /\ CountPair(document_labels, 1, 2) = 0

\* The caller of q owns document q.doc and sees every label of q.lbls.
ReplaceAllValid(q) ==
    /\ \E d \in documents : d.id = q.doc /\ d.user_id = q.user
    /\ \A i \in DOMAIN q.lbls :
          \E l \in labels : l.id = q.lbls[i] /\ (l.user_id = q.user \/ l.is_system)
\* C12: a single-document replace, served alone, of a document the caller
\* owns with a list of labels the caller sees (empty, or repeating an id,
\* included) ends with 200, and the list of the document's labels it answers
\* with, which is what listForDocument reads, holds exactly the labels named
\* in the list, each once, ascending by name.
C12_ReplaceAllRoundTrip ==
    [][ \A r \in Reqs :
          /\ req[r].kind = "update_document_labels" /\ ReplaceAllValid(req[r])
          /\ pc[r] # "done" /\ pc'[r] = "done"
          => LET b == resp'[r].body IN
             /\ resp'[r].status = 200
             /\ { b[i].id : i \in DOMAIN b } = Range(req[r].lbls)
             /\ LabelsOf(document_labels', req[r].doc) = Range(req[r].lbls)
             /\ \A i, j \in DOMAIN b : i < j => b[i] # b[j] /\ NameLeq(b[i].name, b[j].name)
      ]_vars

\* C13: the label check of the single-document replace and of the bulk apply
\* refuses a list (400) exactly when some id in it names no label the caller
\* sees; a list that repeats a visible id is accepted.
C13_SetBasedLabelCheck ==
    [][ \A r \in Reqs :
          pc[r] \in {"ud_labels", "bk_labels"} /\ pc'[r] # pc[r] =>
            (pc'[r] = "done" /\ resp'[r].status = 400) <=> InvalidLabels(req[r])
      ]_vars

\* C14: no two labels of one owner have the same name, and no two system
\* labels have the same name.
C14_NamesUniquePerOwner ==
    \A l1, l2 \in labels :
        l1.id # l2.id /\ l1.name = l2.name =>
            /\ l1.user_id # l2.user_id
            /\ ~(l1.is_system /\ l2.is_system)
\* A created a label named Archived, the name of the system label, and A's
\* rename of label 2 to that name was refused.
C14_Witness ==
    /\ req[1].kind = "create_label" /\ req[1].user = "A" /\ req[1].name = "Archived"
    /\ req[2].kind = "update_label" /\ req[2].user = "A" /\ req[2].label = 2
    /\ req[2].name = "Archived"
    /\ pc[1] = "done" /\ pc[2] = "done"
    /\ resp[1].status = 200 /\ resp[2].status = 400
    /\ Cardinality({ l \in labels : l.name = "Archived" }) = 2

\* The statement r is about to run writes a label whose name its owner
\* already uses on another label.
NameCollision(r) ==
    \/ /\ pc[r] = "cl_insert"
       /\ \E l \in labels : l.user_id = req[r].user /\ l.name = req[r].name
    \/ /\ pc[r] = "ul_update" /\ req[r].name # None
       /\ \E l, l2 \in labels :
             /\ l.id = req[r].label /\ l2.id # l.id
             /\ l2.user_id = l.user_id /\ l2.name = req[r].name
\* C15: a create, or a rename by update, that meets a name its owner already
\* uses ends with status 409 and changes no label.
C15_NameCollisionIsConflict ==
    [][ \A r \in Reqs :
          NameCollision(r) /\ pc'[r] = "done" =>
            resp'[r].status = 409 /\ labels' = labels
      ]_vars

\* C16: a create that succeeds adds one label, which it answers with: owned
\* by the caller, not a system label, of the color the request gives and of
\* "#0969da" when it gives none; and no step of a create adds any other label
\* or changes or removes one.
C16_CreateDefaults ==
    [][ \A r \in Reqs :
          req[r].kind = "create_label" /\ Moved(r) =>
            /\ labels \subseteq labels'
            /\ \A l \in labels' \ labels :
                  /\ l.user_id = req[r].user
                  /\ l.is_system = FALSE
                  /\ l.color = IF req[r].color = None THEN "#0969da" ELSE req[r].color
                  /\ l.name = req[r].name
                  /\ resp'[r].body = <<l>>
            /\ resp'[r].status = 200 => Cardinality(labels' \ labels) = 1
      ]_vars
\* A created a label without giving a color and it has the default color;
\* the system label of the same name is as it was.
C16_Witness ==
    /\ req[1].kind = "create_label" /\ req[1].user = "A" /\ req[1].color = None
    /\ req[1].name = "Archived"
    /\ pc[1] = "done" /\ resp[1].status = 200
    /\ \E l \in labels :
          l.id = 4 /\ l.user_id = "A" /\ ~l.is_system /\ l.color = "#0969da"
    /\ Cardinality({ l \in labels : l.is_system }) = 1

\* C17: when an update succeeds, the label has the name and the color of the
\* patch where the patch gives one and its previous name and color where it
\* gives none, its other fields are as before, and its updated_at is later
\* than before; also for the patch that gives no field.
C17_PartialUpdate ==
    [][ \A r \in Reqs :
          /\ req[r].kind = "update_label" /\ pc[r] # "done"
          /\ pc'[r] = "done" /\ resp'[r].status = 200
          => \E old \in labels, new \in labels' :
                /\ old.id = req[r].label /\ new.id = old.id
                /\ new.name = IF req[r].name # None THEN req[r].name ELSE old.name
                /\ new.color = IF req[r].color # None THEN req[r].color ELSE old.color
                /\ new.user_id = old.user_id /\ new.is_system = old.is_system
                /\ new.created_at = old.created_at
                /\ new.updated_at > old.updated_at
                /\ resp'[r].body = <<new>>
      ]_vars

\* The label request r names exists, belongs to the caller and is not a
\* system label.
OwnLabel(r) ==
    \E l \in labels : l.id = req[r].label /\ l.user_id = req[r].user /\ ~l.is_system
\* C18: the first statement of an update or a delete whose label id names no
\* label, another user's label or a system label ends the call with 404 and
\* changes nothing; on a label of the caller that is not a system label a
\* delete answers 200 and removes that label and no other, and an update is
\* not refused; and an update or a delete that answers 200 or changes a
\* label does so on such a label only.
C18_OwnershipAuthorizes ==
    [][ \A r \in Reqs :
          req[r].kind \in {"update_label", "delete_label"} /\ Moved(r) =>
            /\ pc[r] \in {"ul_check", "dl_delete"} /\ ~OwnLabel(r) =>
                  /\ pc'[r] = "done" /\ resp'[r].status = 404
                  /\ labels' = labels /\ document_labels' = document_labels
            /\ pc[r] = "dl_delete" /\ OwnLabel(r) =>
                  /\ resp'[r].status = 200
                  /\ labels' = { l \in labels : l.id # req[r].label }
            /\ pc[r] = "ul_check" /\ OwnLabel(r) => resp'[r].status # 404
            /\ resp'[r].status = 200 \/ labels' # labels => OwnLabel(r)
            /\ \A l \in labels : l.id # req[r].label => l \in labels'
      ]_vars
\* B asked to delete A's label 2 and got 404; A deleted it; the other labels
\* are there.
C18_Witness ==
    /\ req[1].kind = "delete_label" /\ req[1].user = "B" /\ req[1].label = 2
    /\ req[2].kind = "delete_label" /\ req[2].user = "A" /\ req[2].label = 2
    /\ pc[1] = "done" /\ pc[2] = "done"
    /\ resp[1].status = 404 /\ resp[2].status = 200
    /\ { l.id : l \in labels } = {1, 3}

\* C19: every row of the assignment table references a label that is in the
\* labels table, and a delete that answers 200 leaves no row with the
\* deleted label's id and removes the label.
C19_NoDanglingAssignment ==
    /\ [](\A x \in BagToSet(document_labels) : \E l \in labels : l.id = x.label_id)
    /\ [][ \A r \in Reqs :
             pc[r] = "dl_delete" /\ pc'[r] = "done" /\ resp'[r].status = 200 =>
               /\ \A x \in BagToSet(document_labels') : x.label_id # req[r].label
               /\ \A l \in labels' : l.id # req[r].label
         ]_vars
\* A read document 1 and got label 2 in the list, then deleted label 2; the
\* table has no row of label 2.
C19_Witness ==
    /\ req[1].kind = "get_document_labels" /\ req[1].user = "A" /\ req[1].doc = 1
    /\ pc[1] = "done" /\ \E i \in DOMAIN resp[1].body : resp[1].body[i].id = 2
    /\ req[2].kind = "delete_label" /\ req[2].user = "A" /\ req[2].label = 2
    /\ pc[2] = "done" /\ resp[2].status = 200
    /\ \A x \in BagToSet(document_labels) : x.label_id # 2

\* C20: get_label answers 200 with the label when a label of the id exists
\* and belongs to the caller or is a system label, and 404 "Label not found"
\* otherwise, also when the label exists and belongs to another user.
C20_GetVisible ==
    [][ \A r \in Reqs :
          pc[r] = "g1_fetch" /\ pc'[r] = "done" =>
            LET seen == { l \in labels : /\ l.id = req[r].label
                                         /\ (l.user_id = req[r].user \/ l.is_system) }
            IN  IF seen # {}
                THEN resp'[r].status = 200 /\ \E l \in seen : resp'[r].body = <<l>>
                ELSE resp'[r] = Response(404, "Label not found")
      ]_vars
\* A asked for B's label 3, which exists, and got 404; B asked for the
\* system label 1 and got it.
C20_Witness ==
    /\ req[1].kind = "get_label" /\ req[1].user = "A" /\ req[1].label = 3
    /\ req[2].kind = "get_label" /\ req[2].user = "B" /\ req[2].label = 1
    /\ pc[1] = "done" /\ pc[2] = "done"
    /\ resp[1].status = 404 /\ resp[2].status = 200
    /\ resp[2].body[1].is_system
    /\ \E l \in labels : l.id = 3

\* The statements that verify document ownership in the single-document
\* routes.
DocCheckPcs == {"gd_doc", "ud_doc", "ad_doc", "rd_doc", "ud_ret_doc"}
\* C21: the first statement of a read, a replace, an add or a remove of one
\* document that the caller does not own ends the call with the response
\* 404 "Document not found", the same whether the document belongs to
\* another user or does not exist, and changes no table and opens no
\* transaction.
C21_NoDocumentExistenceLeak ==
    [][ \A r \in Reqs :
          /\ Moved(r) /\ pc[r] \in DocCheckPcs
          /\ ~\E d \in documents : d.id = req[r].doc /\ d.user_id = req[r].user
          => /\ pc'[r] = "done"
             /\ resp'[r] = Response(404, "Document not found")
             /\ UNCHANGED <<labels, document_labels, txDel, txIns, todo>>
      ]_vars
\* A asked to replace the labels of B's document 3 with none; the call got
\* the 404 of a missing document and document 3 has its labels.
C21_Witness ==
    /\ req[1].kind = "update_document_labels" /\ req[1].user = "A"
    /\ req[1].doc = 3 /\ req[1].lbls = <<>>
    /\ pc[1] = "done" /\ resp[1] = Response(404, "Document not found")
    /\ LabelsOf(document_labels, 3) = {1, 3}

\* C22: a bulk apply with an empty document_ids list ends with status 400
\* and none of its steps changes a table.
C22_EmptyDocumentIdsRejected ==
    [][ \A r \in Reqs :
          req[r].kind = Bulk /\ req[r].docs = <<>> /\ Moved(r) =>
            /\ UNCHANGED <<labels, document_labels>>
            /\ pc'[r] = "done" => resp'[r].status = 400
      ]_vars

\* C23: a bulk apply that succeeds reports as documents_updated the number
\* of documents its document_ids list names, in every mode, for every
\* label list, whatever rows its transaction deleted or inserted.
C23_DocumentsUpdated ==
    [][ \A r \in Reqs :
          /\ req[r].kind = Bulk /\ pc[r] # "done"
          /\ pc'[r] = "done" /\ resp'[r].status = 200
          => /\ resp'[r].n = Cardinality(Range(req[r].docs))
             /\ resp'[r].n = Len(req[r].docs)
      ]_vars
\* A bulk remove of labels 1 and 2 from document 2, which has no label, has
\* succeeded and reports one document.
C23_Witness ==
    /\ req[1].kind = Bulk /\ req[1].mode = "remove" /\ req[1].user = "A"
    /\ req[1].docs = <<2>> /\ req[1].lbls = <<1, 2>>
    /\ pc[1] = "done" /\ resp[1].status = 200 /\ resp[1].n = 1
    /\ LabelsOf(document_labels, 2) = {}

\* C24: a bulk apply of documents of the caller, each named once, with an
\* empty label_ids list, unless it is cancelled, succeeds and reports the
\* number of documents; in modes add and remove no
\* step of it changes the assignment table, and in mode replace its commit
\* leaves every targeted document without labels and the rows of the other
\* documents as they were.
C24_EmptyLabelIds ==
    [][ \A r \in Reqs :
          /\ req[r].kind = Bulk /\ req[r].lbls = <<>> /\ req[r].docs # <<>>
          /\ ~InvalidDocs(req[r]) /\ Cardinality(Range(req[r].docs)) = Len(req[r].docs)
          /\ Moved(r)
          /\ resp'[r].msg # "CancelledError"
          => /\ pc'[r] = "done" =>
                   resp'[r].status = 200 /\ resp'[r].n = Len(req[r].docs)
             /\ req[r].mode \in {"add", "remove"} => document_labels' = document_labels
             /\ req[r].mode = "replace" /\ pc[r] = "bk_commit" =>
                   \A x \in BagToSet(document_labels) :
                       CopiesIn(x, document_labels') =
                           IF x.document_id \in Range(req[r].docs)
                           THEN 0 ELSE CopiesIn(x, document_labels)
             /\ BagToSet(document_labels') \subseteq BagToSet(document_labels)
      ]_vars
\* A bulk replace of documents 1 and 2 with no labels has succeeded: both
\* documents have none, and document 3 has its two.
C24_Witness ==
    /\ req[1].kind = Bulk /\ req[1].mode = "replace" /\ req[1].user = "A"
    /\ req[1].docs = <<1, 2>> /\ req[1].lbls = <<>>
    /\ pc[1] = "done" /\ resp[1].status = 200 /\ resp[1].n = 2
    /\ LabelsOf(document_labels, 1) = {} /\ LabelsOf(document_labels, 2) = {}
    /\ LabelsOf(document_labels, 3) = {1, 3}

\* C25: a bulk request whose mode is none of replace, add and remove is
\* answered when it arrives, with a client error status, and the call runs
\* no statement: it has ended in the step that received it, and that step
\* changes no table and opens no transaction.
C25_UnknownModeRejected ==
    [][ \A r \in Reqs :
          /\ pc[r] = "idle" /\ pc'[r] # "idle"
          /\ req'[r].kind = Bulk /\ req'[r].mode \notin {"replace", "add", "remove"}
          => /\ pc'[r] = "done"
             /\ resp'[r].status \in 400 .. 499
             /\ UNCHANGED <<labels, document_labels, txDel, txIns, todo, snap>>
      ]_vars
\* A bulk request of A with mode merge for document 1 and label 2 was
\* refused; document 1 has only label 1.
C25_Witness ==
    /\ req[1].kind = Bulk /\ req[1].mode = "merge" /\ req[1].user = "A"
    /\ req[1].docs = <<1>> /\ req[1].lbls = <<2>>
    /\ pc[1] = "done" /\ resp[1].status = 422
    /\ LabelsOf(document_labels, 1) = {1}

\* C26: a bulk apply or a replace that ends without success after its
\* transaction opened, by cancellation or by a store error (between the
\* DELETE and the INSERTs of a replace, for one), leaves nothing behind: no
\* step of the call other than its COMMIT changes the assignment table, and
\* the step that ends it in failure changes no table and drops everything
\* the transaction had deleted and inserted.
C26_RollbackOnFailure ==
    [][ \A r \in Reqs :
          /\ InTx(r) /\ Moved(r)
          /\ ~(pc[r] \in {"ud_commit", "bk_commit"} /\ pc'[r] \in {"ud_ret_doc", "done"}
                 /\ resp'[r].msg # "CancelledError")
          => /\ document_labels' = document_labels
             /\ pc'[r] = "done" =>
                   /\ resp'[r].status # 200
                   /\ txDel'[r] = {} /\ txIns'[r] = EmptyBag /\ todo'[r] = <<>>
      ]_vars
\* A replace of the labels of document 1 by label 2 was cancelled after its
\* DELETE: document 1 still has label 1 and not label 2.
C26_Witness ==
    /\ req[1].kind = "update_document_labels" /\ req[1].doc = 1 /\ req[1].lbls = <<2>>
    /\ pc[1] = "done" /\ resp[1].msg = "CancelledError"
    /\ LabelsOf(document_labels, 1) = {1}

\* C27: concurrent bulk applies on overlapping pairs never wait for each
\* other in a circle: no bulk apply is in a state where it waits, directly
\* or through others, for a transaction that waits for it (the state in
\* which the store aborts one of them as the deadlock victim).
C27_NoCircularWait ==
    (\A r \in Reqs : pc[r] # "idle" /\ req[r].kind = Bulk)
        => \A r \in Reqs : InTx(r) => ~InWaitCycle(r)

\* The statements of the access checks and of the reads: the ownership
\* SELECTs on documents, the visibility SELECTs on labels, and the SELECTs
\* of get_labels, get_label and get_document_labels.
ReadPcs == {"gl_fetch", "g1_fetch", "gd_doc", "gd_fetch", "ud_ret_doc", "ud_ret_fetch",
            "ud_doc", "ud_labels", "ad_doc", "ad_label", "rd_doc", "bk_docs", "bk_labels"}
\* C28: the access checks and the reads are pure: a step that runs the
\* ownership check of documents, the visibility check of labels, or the
\* SELECT of get_labels, get_label or get_document_labels changes neither
\* the labels nor the assignment table, and writes nothing in a
\* transaction, whether the call goes on, answers 200 or ends in an error
\* (the documents are never written by these handlers).
C28_ReadsArePure ==
    [][ \A r \in Reqs :
          Moved(r) /\ pc[r] \in ReadPcs
          => UNCHANGED <<labels, nextId, document_labels, txDel, txIns>>
      ]_vars
\* A read the labels of document 1 and got label 2; B asked for the labels
\* of the same document and got 404; the tables are as they were.
C28_Witness ==
    /\ req[1].kind = "get_document_labels" /\ req[1].user = "A" /\ req[1].doc = 1
    /\ pc[1] = "done" /\ resp[1].status = 200 /\ Len(resp[1].body) = 1
    /\ req[2].kind = "get_document_labels" /\ req[2].user = "B" /\ req[2].doc = 1
    /\ pc[2] = "done" /\ resp[2].status = 404
    /\ labels = InitLabels
    /\ document_labels = SetToBag({Row(1, 2, "A")})

\* C29: in every state every label has updated_at >= created_at, and no
\* step lowers the updated_at of a label or changes its created_at.
C29_TimestampsMonotonic ==
    /\ [](\A l \in labels : l.updated_at >= l.created_at)
    /\ [][ \A l \in labels : \A l2 \in labels' :
              l2.id = l.id => l2.updated_at >= l.updated_at /\ l2.created_at = l.created_at
         ]_vars
\* Label 2, created at time 0, has been updated twice by its owner and
\* carries the time of the second update.
C29_Witness ==
    /\ req[1].kind = "update_label" /\ req[1].label = 2 /\ pc[1] = "done" /\ resp[1].status = 200
    /\ req[2].kind = "update_label" /\ req[2].label = 2 /\ pc[2] = "done" /\ resp[2].status = 200
    /\ \E l \in labels : l.id = 2 /\ l.created_at = 0 /\ l.updated_at = 2

\* C30: a read that reports counts, get_label or get_labels with
\* include_counts, reports for every label it returns the number of
\* distinct documents that have a row for the label in the assignment
\* table at the time of the read.
C30_DocumentCount ==
    [][ \A r \in Reqs :
          /\ Moved(r) /\ pc'[r] = "done" /\ resp'[r].status = 200
          /\ \/ req[r].kind = "get_label"
             \/ req[r].kind = "get_labels" /\ req[r].include_counts
          => /\ DOMAIN resp'[r].counts = DOMAIN resp'[r].body
             /\ \A i \in DOMAIN resp'[r].body :
                   resp'[r].counts[i] =
                     Cardinality({ d \in DocIds :
                        CountPair(document_labels, d, resp'[r].body[i].id) > 0 })
      ]_vars
\* A added label 2 to documents 1 and 2 in one bulk call, document 1 had it
\* already; A then listed the labels with counts and label 2 is reported
\* with two documents, the system label with none.
C30_Witness ==
    /\ req[1].kind = Bulk /\ req[1].mode = "add" /\ pc[1] = "done" /\ resp[1].status = 200
    /\ req[2].kind = "get_labels" /\ req[2].include_counts /\ req[2].user = "A"
    /\ pc[2] = "done" /\ resp[2].status = 200
    /\ \E i, j \in DOMAIN resp[2].body :
          /\ resp[2].body[i].id = 2 /\ resp[2].counts[i] = 2
          /\ resp[2].body[j].id = 1 /\ resp[2].counts[j] = 0

\* The (document, label) pairs a call inserts: those of an add, or those of
\* a single-document replace.
InsertPairs(q) ==
    IF q.kind = "update_document_labels"
    THEN { <<q.doc, l>> : l \in Range(q.lbls) }
    ELSE IF IsAdd(q) THEN AddPairs(q) ELSE {}
\* C31: a single-document replace that ran together with a single add, a
\* bulk add or another replace inserting one of its pairs, and was neither
\* refused by its checks nor cancelled, has not ended in a server error,
\* and when both calls have ended every common pair has at most one row.
C31_ReplaceRaceNoFatalError ==
    \A r1, r2 \in Reqs :
        /\ r1 # r2
        /\ req[r1].kind = "update_document_labels" /\ pc[r1] = "done"
        /\ resp[r1].msg # "CancelledError" /\ resp[r2].msg # "CancelledError"
        /\ pc[r2] = "done" /\ resp[r2].status \notin {400, 404}
        /\ InsertPairs(req[r1]) \cap InsertPairs(req[r2]) # {}
        => /\ resp[r1].status # 500
           /\ \A p \in InsertPairs(req[r1]) \cap InsertPairs(req[r2]) :
                 CountPair(document_labels, p[1], p[2]) <= 1

\* The caller owns the document of the single-document request q.
OwnsDoc(q) == \E d \in documents : d.id = q.doc /\ d.user_id = q.user
\* C32: a single-document replace checks the document before the labels:
\* on a document the caller does not own its first statement ends it with
\* 404, whatever the label ids are; on an owned document with a label id
\* the caller does not see, the document check passes and the label check
\* ends it with 400; neither check changes the assignment table or opens a
\* transaction.
C32_ReplaceChecksDocumentFirst ==
    [][ \A r \in Reqs :
          /\ req[r].kind = "update_document_labels" /\ Moved(r)
          /\ pc[r] \in {"ud_doc", "ud_labels"}
          /\ ~OwnsDoc(req[r]) \/ InvalidLabels(req[r])
          => /\ IF ~OwnsDoc(req[r])
                THEN pc[r] = "ud_doc" /\ pc'[r] = "done" /\ resp'[r].status = 404
                ELSE IF pc[r] = "ud_doc"
                THEN pc'[r] = "ud_labels"
                ELSE pc'[r] = "done" /\ resp'[r].status = 400
             /\ UNCHANGED <<labels, document_labels, txDel, txIns, todo>>
      ]_vars
\* A asked to replace the labels of B's document 3 by label 3, which A does
\* not see either: the answer is the 404 of the document, and document 3
\* has its labels.
C32_Witness ==
    /\ req[1].kind = "update_document_labels" /\ req[1].user = "A"
    /\ req[1].doc = 3 /\ req[1].lbls = <<3>>
    /\ pc[1] = "done" /\ resp[1].status = 404 /\ resp[1].msg = "Document not found"
    /\ LabelsOf(document_labels, 3) = {1, 3}

\* C33: a single add on a document of the caller ends with 404 and inserts
\* no row when the label does not exist or belongs to another user and is
\* not a system label; for a system label it ends with 200 and the pair has
\* its row, whoever the caller is.
C33_AddOneLabelCheck ==
    [][ \A r \in Reqs :
          /\ req[r].kind = "add_document_label" /\ Moved(r) /\ OwnsDoc(req[r])
          => LET seen == { l \in labels : l.id = req[r].label } IN
             /\ (\A l \in seen : l.user_id # req[r].user /\ ~l.is_system)
                   => /\ document_labels' = document_labels
                      /\ pc'[r] # "ad_insert"
                      /\ pc'[r] = "done" => resp'[r] = Response(404, "Label not found")
             /\ (\E l \in seen : l.is_system) /\ pc'[r] = "done"
                   => /\ resp'[r].status = 200
                      /\ CountPair(document_labels', req[r].doc, req[r].label) = 1
      ]_vars
\* B has added the system label 1 to B's document 3, which did not have it.
C33_Witness ==
    /\ req[1].kind = "add_document_label" /\ req[1].user = "B"
    /\ req[1].doc = 3 /\ req[1].label = 1
    /\ pc[1] = "done" /\ resp[1] = Response(200, "Label added successfully")
    /\ CountPair(document_labels, 3, 1) = 1

\* C34: no step of a bulk apply changes the labels, and the rows of the
\* assignment table it adds or takes away are rows of documents in
\* document_ids and, in modes add and remove, of labels in label_ids; every
\* other row, so the label set of every other document, is as it was.
C34_BulkFrame ==
    [][ \A r \in Reqs :
          req[r].kind = Bulk /\ Moved(r)
          => /\ UNCHANGED <<labels, nextId>>
             /\ \A x \in BagToSet(document_labels) \cup BagToSet(document_labels') :
                   CopiesIn(x, document_labels') # CopiesIn(x, document_labels)
                   => /\ x.document_id \in Range(req[r].docs)
                      /\ req[r].mode \in {"add", "remove"}
                            => x.label_id \in Range(req[r].lbls)
      ]_vars
\* A has replaced the labels of document 2 by label 2 in a bulk call;
\* documents 1 and 3 keep the two labels each had.
C34_Witness ==
    /\ req[1].kind = Bulk /\ req[1].mode = "replace" /\ req[1].user = "A"
    /\ req[1].docs = <<2>> /\ req[1].lbls = <<2>>
    /\ pc[1] = "done" /\ resp[1].status = 200
    /\ LabelsOf(document_labels, 2) = {2}
    /\ LabelsOf(document_labels, 1) = {1, 2}
    /\ LabelsOf(document_labels, 3) = {1, 3}
    /\ labels = InitLabels

\* C35: when a bulk apply that succeeded is sent again, no step of the
\* second run changes the label set of any document, and the second run
\* ends with 200 and the same documents_updated as the first.
C35_BulkIdempotent ==
    [][ /\ req[2] = req[1] /\ req[1].kind = Bulk
        /\ pc[1] = "done" /\ resp[1].status = 200
        /\ Moved(2)
        => /\ \A d \in DocIds : LabelsOf(document_labels', d) = LabelsOf(document_labels, d)
           /\ pc'[2] = "done" => resp'[2].status = 200 /\ resp'[2].n = resp[1].n
      ]_vars
\* A has added labels 1 and 2 to documents 1 and 2 twice in a row: both
\* runs answered 200 with 2 documents updated and each pair has one row.
C35_Witness ==
    /\ req[1].kind = Bulk /\ req[1].mode = "add" /\ req[1].user = "A"
    /\ req[1].docs = <<1, 2>> /\ req[1].lbls = <<1, 2>>
    /\ req[2] = req[1]
    /\ pc[1] = "done" /\ resp[1].status = 200 /\ resp[1].n = 2
    /\ pc[2] = "done" /\ resp[2].status = 200 /\ resp[2].n = 2
    /\ \A d \in {1, 2} : \A l \in {1, 2} : CountPair(document_labels, d, l) = 1

\* The owner of the document row x is about is user u.
DocOwnedBy(x, u) == \E d \in documents : d.id = x.document_id /\ d.user_id = u
\* C36: no step of a request of user B, whatever the request, changes a
\* row of a document owned by A, adds one, or changes, adds or removes a
\* label owned by A.
C36_Isolation ==
    [][ \A r \in Reqs :
          req[r].user = "B" /\ Moved(r)
          => /\ \A x \in BagToSet(document_labels) \cup BagToSet(document_labels') :
                   DocOwnedBy(x, "A") =>
                       CopiesIn(x, document_labels') = CopiesIn(x, document_labels)
             /\ { l \in labels' : l.user_id = "A" } = { l \in labels : l.user_id = "A" }
      ]_vars
\* B has deleted B's label 3, which took the label away from B's document
\* 3; A's document 1 keeps its two labels and A's label 2 is as it was.
C36_Witness ==
    /\ req[1].kind = "delete_label" /\ req[1].user = "B" /\ req[1].label = 3
    /\ pc[1] = "done" /\ resp[1].status = 200
    /\ LabelsOf(document_labels, 3) = {1}
    /\ LabelsOf(document_labels, 1) = {1, 2}
    /\ { l \in labels : l.user_id = "A" } = { l \in InitLabels : l.user_id = "A" }

\* C37: the counts a user is shown depend on that user's documents only:
\* the document_count a read reports for a label is the number of documents
\* of the caller that have the label, that is the count the same request
\* gets from the table without the rows of the other users' documents.
C37_CountsOwnDocumentsOnly ==
    [][ \A r \in Reqs :
          /\ req[r].user \in Users
          /\ Moved(r) /\ pc'[r] = "done" /\ resp'[r].status = 200
          /\ \/ req[r].kind = "get_label"
             \/ req[r].kind = "get_labels" /\ req[r].include_counts
          => \A i \in DOMAIN resp'[r].body :
                resp'[r].counts[i] =
                  Cardinality({ d \in documents :
                     /\ d.user_id = req[r].user
                     /\ CountPair(document_labels, d.id, resp'[r].body[i].id) > 0 })
      ]_vars

\* The labels a call inserts rows for: the label of a single add, the list
\* of a replace or of a bulk add.
InsertLabels(q) ==
    IF q.kind = "add_document_label" THEN {q.label}
    ELSE IF q.kind = "update_document_labels" \/ (q.kind = Bulk /\ q.mode \in {"add", "replace"})
    THEN Range(q.lbls)
    ELSE {}
\* Call r has passed its visibility check of label l and has still to run
\* the INSERT of a row with it.
InsertPending(r, l) ==
    \/ pc[r] = "ad_insert" /\ l = req[r].label
    \/ pc[r] = "ud_delete" /\ l \in Range(req[r].lbls)
    \/ pc[r] = "bk_delete" /\ l \in Range(req[r].lbls) /\ req[r].docs # <<>>
    \/ pc[r] \in {"ud_insert", "bk_insert"} /\ \E i \in DOMAIN todo[r] : todo[r][i].label_id = l
\* C38: when a label has been deleted after the visibility check of a
\* single add, a replace or a bulk apply and before the call's INSERT of a
\* row with it, no step of the call changes the assignment table or takes
\* it to its COMMIT, and the call does not end with 200: it commits none of
\* its rows; and once such a call and the delete of one of its labels have
\* both ended, no row of the table references the deleted label.
C38_DeleteBetweenCheckAndInsert ==
    /\ [][ \A r \in Reqs :
             /\ Moved(r)
             /\ \E l \in InsertLabels(req[r]) : InsertPending(r, l) /\ ~LabelExists(l)
             => /\ document_labels' = document_labels
                /\ pc'[r] \notin {"ud_commit", "bk_commit"}
                /\ pc'[r] = "done" => resp'[r].status # 200
         ]_vars
    /\ [](\A r, r2 \in Reqs :
             /\ pc[r] = "done" /\ pc[r2] = "done"
             /\ req[r2].kind = "delete_label" /\ resp[r2].status = 200
             /\ req[r2].label \in InsertLabels(req[r])
             => \A x \in BagToSet(document_labels) : x.label_id # req[r2].label)
\* A bulk add of labels 1 and 2 to document 1 had passed its checks when A
\* deleted label 2; the bulk add ended with an error and neither of its
\* rows is in the table.
C38_Witness ==
    /\ req[1].kind = Bulk /\ req[1].mode = "add" /\ req[1].user = "A"
    /\ req[1].docs = <<1>> /\ req[1].lbls = <<1, 2>>
    /\ req[2].kind = "delete_label" /\ req[2].user = "A" /\ req[2].label = 2
    /\ pc[1] = "done" /\ resp[1].status = 500
    /\ pc[2] = "done" /\ resp[2].status = 200
    /\ document_labels = EmptyBag

\* C39: the COMMIT of a successful bulk add leaves every row the table had
\* as it was, its assigned_by included, and the rows it adds are the
\* caller's; after the COMMIT of a successful bulk replace every row of a
\* targeted document has the caller as assigned_by.
C39_AssignedByUnderBulk ==
    [][ \A r \in Reqs :
          /\ req[r].kind = Bulk /\ pc[r] = "bk_commit"
          /\ pc'[r] = "done" /\ resp'[r].status = 200
          => /\ req[r].mode = "add" =>
                  /\ \A x \in BagToSet(document_labels) :
                        CopiesIn(x, document_labels') = CopiesIn(x, document_labels)
                  /\ \A x \in BagToSet(document_labels') :
                        CopiesIn(x, document_labels) = 0 => x.assigned_by = req[r].user
             /\ req[r].mode = "replace" =>
                  \A x \in BagToSet(document_labels') :
                      x.document_id \in Range(req[r].docs) => x.assigned_by = req[r].user
      ]_vars
\* Document 1 had label 1, assigned by the system user; A has added labels
\* 1 and 2 to it in a bulk call: the row of label 1 is still the system
\* user's and the new row of label 2 is A's.
C39_Witness ==
    /\ req[1].kind = Bulk /\ req[1].mode = "add" /\ req[1].user = "A"
    /\ req[1].docs = <<1>> /\ req[1].lbls = <<1, 2>>
    /\ pc[1] = "done" /\ resp[1].status = 200
    /\ CopiesIn(Row(1, 1, SystemUser), document_labels) = 1
    /\ CopiesIn(Row(1, 2, "A"), document_labels) = 1
    /\ CountPair(document_labels, 1, 1) = 1

\* C40: a bulk apply whose document_ids list repeats an id is ended by its
\* first statement with 400 "One or more documents not found", also when
\* the caller owns every document in it, and that statement changes no
\* table and opens no transaction.
C40_RepeatedDocumentIdRejected ==
    [][ \A r \in Reqs :
          /\ req[r].kind = Bulk /\ Moved(r)
          /\ Cardinality(Range(req[r].docs)) < Len(req[r].docs)
          => /\ pc[r] = "bk_docs" /\ pc'[r] = "done"
             /\ resp'[r] = Response(400, "One or more documents not found")
             /\ UNCHANGED <<labels, document_labels, txDel, txIns, todo>>
      ]_vars
\* A asked to add label 2 to documents [1, 1]; document 1 is A's, the call
\* got 400 and document 1 has no label 2.
C40_Witness ==
    /\ req[1].kind = Bulk /\ req[1].mode = "add" /\ req[1].user = "A"
    /\ req[1].docs = <<1, 1>> /\ req[1].lbls = <<2>>
    /\ pc[1] = "done" /\ resp[1] = Response(400, "One or more documents not found")
    /\ CountPair(document_labels, 1, 2) = 0

====
